---- MODULE Spec2Model ----
(***************************************************************************)
(* A model of qt_doc_parser.py (src/future_and_past/qt_doc_parser.py): the  *)
(* declaration parser, the type registry, the cross-reference resolver and  *)
(* the typedef meaning step, run by process() over a corpus of documents.   *)
(*                                                                         *)
(* Text is a sequence of one-character strings, so that the string          *)
(* operations of the code (strip, split, find, endswith, the regular        *)
(* expressions) are computed and not assumed.  A Python dict is a function  *)
(* whose domain is the set of its keys: a key that is absent is absent from *)
(* the domain.  An optional text is <<>> (None) or <<text>>.                *)
(***************************************************************************)
EXTENDS Integers, Sequences, FiniteSets, TLC

\* ------------------------------------------------------------------ text

WhiteSpace == {" ", "\t", "\n"}

Digits == {"0", "1", "2", "3", "4", "5", "6", "7", "8", "9"}

Letters ==
  {"a","b","c","d","e","f","g","h","i","j","k","l","m",
   "n","o","p","q","r","s","t","u","v","w","x","y","z",
   "A","B","C","D","E","F","G","H","I","J","K","L","M",
   "N","O","P","Q","R","S","T","U","V","W","X","Y","Z"}

\* The class \w of the regular expressions.
WordChars == Letters \cup Digits \cup {"_"}

Min(a, b) == IF a < b THEN a ELSE b

Max(a, b) == IF a < b THEN b ELSE a

\* Python's s[a:b], with 0-based and negative indices.
PySlice(s, a, b) ==
  LET n  == Len(s)
      na == IF a < 0 THEN Max(a + n, 0) ELSE Min(a, n)
      nb == IF b < 0 THEN Max(b + n, 0) ELSE Min(b, n)
  IN SubSeq(s, na + 1, nb)

\* Python's s[a:].
PyFrom(s, a) == PySlice(s, a, Len(s))

StartsWith(s, p) == Len(p) <= Len(s) /\ SubSeq(s, 1, Len(p)) = p

EndsWith(s, p) == Len(p) <= Len(s) /\ SubSeq(s, Len(s) - Len(p) + 1, Len(s)) = p

\* sub in s
Contains(s, sub) ==
  \E i \in 1..(Len(s) - Len(sub) + 1) : SubSeq(s, i, i + Len(sub) - 1) = sub

\* s.find(sub, start): the 0-based index of the first occurrence at or after
\* start, or -1.
Find(s, sub, start) ==
  LET hits == { i \in start..(Len(s) - Len(sub)) : SubSeq(s, i + 1, i + Len(sub)) = sub }
  IN IF hits = {} THEN -1 ELSE CHOOSE i \in hits : \A j \in hits : i <= j

\* s.rfind(sub), or -1.
RFind(s, sub) ==
  LET hits == { i \in 0..(Len(s) - Len(sub)) : SubSeq(s, i + 1, i + Len(sub)) = sub }
  IN IF hits = {} THEN -1 ELSE CHOOSE i \in hits : \A j \in hits : j <= i

\* s.count(c) for a one-character c.
Count(s, c) == Cardinality({ i \in 1..Len(s) : s[i] = c })

\* The least index of a non-empty set of indices, and the greatest.
FirstIndex(S) == CHOOSE i \in S : \A j \in S : i <= j

LastIndex(S) == CHOOSE i \in S : \A j \in S : j <= i

\* The positions of s that hold a character outside cs.
Outside(s, cs) == { i \in 1..Len(s) : s[i] \notin cs }

\* s without its leading characters of cs, and without its trailing ones.
LStripSet(s, cs) ==
  IF Outside(s, cs) = {} THEN <<>> ELSE SubSeq(s, FirstIndex(Outside(s, cs)), Len(s))

RStripSet(s, cs) ==
  IF Outside(s, cs) = {} THEN <<>> ELSE SubSeq(s, 1, LastIndex(Outside(s, cs)))

\* s.strip(chars)
StripSet(s, cs) == RStripSet(LStripSet(s, cs), cs)

\* s.strip()
Strip(s) == StripSet(s, WhiteSpace)

\* s.split(sep) for a non-empty sep: the pieces between the occurrences of
\* sep, found left to right without overlap.
RECURSIVE Split(_, _)
Split(s, sep) ==
  LET i == Find(s, sep, 0)
  IN IF i < 0 THEN <<s>>
     ELSE <<PySlice(s, 0, i)>> \o Split(PyFrom(s, i + Len(sep)), sep)

\* s.rsplit(sep, 1): cut at the last occurrence of sep.
RSplit1(s, sep) ==
  LET i == RFind(s, sep)
  IN IF i < 0 THEN <<s>> ELSE <<PySlice(s, 0, i), PyFrom(s, i + Len(sep))>>

\* sep.join(parts)
RECURSIVE Join(_, _)
Join(sep, parts) ==
  IF parts = <<>> THEN <<>>
  ELSE IF Len(parts) = 1 THEN parts[1]
  ELSE parts[1] \o sep \o Join(sep, Tail(parts))

\* The longest prefix of s made of characters of cs.
PrefixIn(s, cs) ==
  IF Outside(s, cs) = {} THEN s ELSE SubSeq(s, 1, FirstIndex(Outside(s, cs)) - 1)

\* The longest suffix of s made of characters of cs.
SuffixIn(s, cs) ==
  IF Outside(s, cs) = {} THEN s ELSE SubSeq(s, LastIndex(Outside(s, cs)) + 1, Len(s))

\* re.match("^\\w+$", s), for a text with no line break at its end.
IsWord(s) == s # <<>> /\ \A i \in 1..Len(s) : s[i] \in WordChars

\* re.findall("\\w+$", s): the run of word characters that ends s, if any.
FindallTrailingWord(s) ==
  LET w == SuffixIn(s, WordChars) IN IF w = <<>> THEN <<>> ELSE <<w>>

\* re.match('^([\w:]+)\s*<(.*)>$', s): <<>> when there is no match, else
\* <<[g1, g2]>>.  Group 1 is the whole leading run of [\w:] (no shorter run can
\* be followed by white space or '<'); '.' matches anything but a line break,
\* and the last character has to be the closing '>'.
TemplateMatch(s) ==
  LET g1   == PrefixIn(s, WordChars \cup {":"})
      rest == LStripSet(PyFrom(s, Len(g1)), WhiteSpace)
  IN IF /\ g1 # <<>>
        /\ Len(rest) >= 2
        /\ Head(rest) = "<"
        /\ rest[Len(rest)] = ">"
        /\ \A i \in 2..(Len(rest) - 1) : rest[i] # "\n"
     THEN << [g1 |-> g1, g2 |-> SubSeq(rest, 2, Len(rest) - 1)] >>
     ELSE <<>>

\* ------------------------------------------------------------ dicts

\* d[k] = v
Put(d, k, v) == (k :> v) @@ d

\* d.pop(k, None), as a statement
Drop(d, k) == [x \in (DOMAIN d) \ {k} |-> d[x]]

EmptyDict == [x \in {} |-> TRUE]

\* None, where the value is otherwise a dict.
NoneVal == [none |-> TRUE]

IsNone(v) == "none" \in DOMAIN v

\* ------------------------------------------------------- exceptions

\* The bases of each exception class, itself included.
ExceptionBases ==
  [ Exception              |-> {"Exception"},
    KeyError               |-> {"KeyError", "Exception"},
    ParseException         |-> {"ParseException", "Exception"},
    TypeParseException     |-> {"TypeParseException", "ParseException", "Exception"},
    InvalidLayoutException |-> {"InvalidLayoutException", "ParseException", "Exception"},
    NoTypeOriginException  |-> {"NoTypeOriginException", "ParseException", "Exception"} ]

\* Whether "except cls" catches an exception of class exc.
Catches(cls, exc) == cls \in ExceptionBases[exc]

\* The outcome of a call: a returned value, or a raised exception with the
\* source line that raises it.
Ok(v) == [exc |-> "none", val |-> v]

Raise(cls, line) == [exc |-> cls, line |-> line]

IsOk(r) == r.exc = "none"

\* The values of a sequence of returned outcomes.
Values(rs) == [i \in 1..Len(rs) |-> rs[i].val]

\* The sequences of a sequence, joined in order.
RECURSIVE Flatten(_)
Flatten(seqs) == IF seqs = <<>> THEN <<>> ELSE Head(seqs) \o Flatten(Tail(seqs))

\* ------------------------------------------------ argument splitter

\* The first index whose fragment is unbalanced and has a right neighbour, or 0.
FirstUnbalanced(arg_list) ==
  LET bad == { i \in 1..(Len(arg_list) - 1) :
                 Count(arg_list[i], "<") # Count(arg_list[i], ">") }
  IN IF bad = {} THEN 0 ELSE CHOOSE i \in bad : \A j \in bad : i <= j

\* Lines 119-138 with the comma of line 130 left out of the merged fragment.
RECURSIVE argument_list_merged_without_comma(_)
argument_list_merged_without_comma(arg_list) ==
  LET i == FirstUnbalanced(arg_list)
  IN IF i = 0 THEN arg_list
     ELSE argument_list_merged_without_comma(
            SubSeq(arg_list, 1, i - 1)
            \o << arg_list[i] \o <<" ">> \o arg_list[i + 1] >>
            \o SubSeq(arg_list, i + 2, Len(arg_list)))

\* Lines 119-138 with one pass only: the first unbalanced fragment is merged
\* and the loop ends.
argument_list_fixed_once(arg_list) ==
  IF FirstUnbalanced(arg_list) = 0 THEN arg_list
  ELSE SubSeq(arg_list, 1, FirstUnbalanced(arg_list) - 1)
       \o << arg_list[FirstUnbalanced(arg_list)] \o <<","," ">>
             \o arg_list[FirstUnbalanced(arg_list) + 1] >>
       \o SubSeq(arg_list, FirstUnbalanced(arg_list) + 2, Len(arg_list))

RECURSIVE argument_list_template_dirty_fix(_)
argument_list_template_dirty_fix(arg_list) ==
  LET i == FirstUnbalanced(arg_list)
  IN IF i = 0 THEN arg_list
     ELSE argument_list_template_dirty_fix(
            SubSeq(arg_list, 1, i - 1)
            \o << arg_list[i] \o <<","," ">> \o arg_list[i + 1] >>
            \o SubSeq(arg_list, i + 2, Len(arg_list)))

\* ---------------------------------------------------- parse_type

\* The suffixes tried with the short ones first.
ShortSuffixesFirst == << <<"&">>, <<"*">>, <<"&","&">>, <<"*","*">>, <<"*","&">> >>

IndirectionSuffixes == << <<"&","&">>, <<"*","*">>, <<"*","&">>, <<"&">>, <<"*">> >>

\* The first suffix of the list that s ends with, or <<>>.
FirstSuffix(s) ==
  LET hits == { i \in 1..Len(IndirectionSuffixes) : EndsWith(s, IndirectionSuffixes[i]) }
  IN IF hits = {} THEN <<>>
     ELSE IndirectionSuffixes[CHOOSE i \in hits : \A j \in hits : i <= j]

\* The outcomes of a list of calls made in order: the values, or the first
\* exception raised.
AllOk(rs) ==
  IF \E i \in 1..Len(rs) : ~IsOk(rs[i])
  THEN rs[FirstIndex({ i \in 1..Len(rs) : ~IsOk(rs[i]) })]
  ELSE Ok(Values(rs))

IsNonEmpty(s) == s # <<>>

\* Lines 105-107: the fragments stripped, the empty ones left out.
NonEmptyStripped(args) ==
  SelectSeq([i \in 1..Len(args) |-> Strip(args[i])], IsNonEmpty)

\* Lines 87-92: the text after the indirection suffix is cut; string is
\* stripped.
cut_indirection(string) ==
  IF FirstSuffix(string) # <<>>
  THEN Strip(PySlice(string, 0, Len(string) - Len(FirstSuffix(string))))
  ELSE string

\* Lines 94-96: the text after the leading "const " is cut.
cut_const(string) ==
  IF StartsWith(string, <<"c","o","n","s","t"," ">>) THEN Strip(PyFrom(string, Len(<<"c","o","n","s","t"," ">>))) ELSE string

\* Lines 86-96: the result before the template is read.
type_qualifiers(string) ==
  (IF StartsWith(cut_indirection(string), <<"c","o","n","s","t"," ">>) THEN [is_const |-> TRUE]
   ELSE EmptyDict)
  @@ (IF FirstSuffix(string) # <<>> THEN [indirection |-> FirstSuffix(string)]
      ELSE EmptyDict)

\* Line 98: the match of the text left at line 97.
template_match_of(string) == TemplateMatch(cut_const(cut_indirection(string)))

\* Lines 102-107 without line 104: the fragments between the commas are the
\* template arguments.
template_args_split(template_match) ==
  NonEmptyStripped(Split(template_match[1].g2, <<",">>))

\* Lines 102-107: the template arguments to parse.
template_args(template_match) ==
  NonEmptyStripped(argument_list_template_dirty_fix(Split(template_match[1].g2, <<",">>)))

\* Lines 100 and 109-112: the text that becomes the base.
type_base(string) ==
  IF template_match_of(string) # <<>> THEN Strip(template_match_of(string)[1].g1)
  ELSE cut_const(cut_indirection(string))

\* Lines 104-114 without the check of lines 110-111.
type_result_unchecked(string, arguments) ==
  IF ~IsOk(arguments) THEN arguments
  ELSE Ok(Put(IF template_match_of(string) # <<>>
              THEN Put(type_qualifiers(string), "template_arguments", arguments.val)
              ELSE type_qualifiers(string),
              "base", type_base(string)))

\* Lines 104-114: arguments holds the outcome of parsing the template
\* arguments in order.
type_result(string, arguments) ==
  IF ~IsOk(arguments) THEN arguments
  ELSE IF Contains(type_base(string), <<"&">>) \/ Contains(type_base(string), <<"*">>)
  THEN Raise("TypeParseException", 111)
  ELSE Ok(Put(IF template_match_of(string) # <<>>
              THEN Put(type_qualifiers(string), "template_arguments", arguments.val)
              ELSE type_qualifiers(string),
              "base", type_base(string)))

RECURSIVE parse_type(_)
parse_template_arguments(template_match) ==
  IF template_match = <<>> THEN Ok(<<>>)
  ELSE AllOk([i \in 1..Len(template_args(template_match)) |->
                parse_type(template_args(template_match)[i])])

parse_type(string) ==
  IF Strip(string) = <<>> THEN Raise("ParseException", 87)
  ELSE type_result(Strip(string), parse_template_arguments(template_match_of(Strip(string))))

\* ------------------------------------------------ parse_argument

\* Line 145: an argument without a name.
unnamed_argument(type) ==
  IF IsOk(type) THEN Ok([type |-> type.val, name |-> <<"v","a","l","u","e">>]) ELSE type

\* Lines 148, 151-152 and 157-160.
typed_argument(parts1, name, type) ==
  IF ~IsOk(type) THEN type
  ELSE Ok(Put(Put(IF Len(parts1) = 2 THEN [default_value |-> Strip(parts1[2])]
                  ELSE EmptyDict,
                  "name", name),
              "type", type.val))

\* Line 154.
other_part_of(string) == Strip(Split(string, <<"=">>)[1])

\* Lines 149-159.
parse_argument(string) ==
  IF string \in {<<"i","n","t">>, <<"b","o","o","l">>} THEN unnamed_argument(parse_type(string))
  ELSE IF Len(Split(string, <<"=">>)) \notin {1, 2} THEN Raise("InvalidLayoutException", 152)
  ELSE IF Len(FindallTrailingWord(other_part_of(string))) # 1
  THEN Raise("InvalidLayoutException", 157)
  ELSE typed_argument(
         Split(string, <<"=">>),
         FindallTrailingWord(other_part_of(string))[1],
         parse_type(PySlice(other_part_of(string), 0,
                            Len(other_part_of(string))
                            - Len(FindallTrailingWord(other_part_of(string))[1]))))

\* ------------------------------------------------- parse_methods

Truthy(opt) == opt # <<>> /\ opt[1] # <<>>

\* Lines 215-221 for one part of the argument list: "skip" is the continue of
\* an empty part, "variable" is a "...".
argument_outcome(part) ==
  IF part = <<>> THEN [exc |-> "skip"]
  ELSE IF Strip(part) = <<".",".",".">> THEN [exc |-> "variable"]
  ELSE parse_argument(Strip(part))

IsVariable(r) == r.exc = "variable"

\* Lines 212-221: the outcomes of the parts in order give the arguments, or
\* the first exception raised.
arguments_of_parts(parts) ==
  IF \E k \in 1..Len(parts) : parts[k].exc \notin {"none", "skip", "variable"}
  THEN parts[FirstIndex({ k \in 1..Len(parts) :
                            parts[k].exc \notin {"none", "skip", "variable"} })]
  ELSE Ok(IF SelectSeq(parts, IsVariable) # <<>>
          THEN [arguments |-> Values(SelectSeq(parts, IsOk)), variable_arguments |-> TRUE]
          ELSE [arguments |-> Values(SelectSeq(parts, IsOk))])

parse_argument_list(arg_list) ==
  arguments_of_parts([k \in 1..Len(arg_list) |-> argument_outcome(arg_list[k])])

\* Lines 223-225: the suffix after " = 0" is cut.
cut_pure(suffix) ==
  IF EndsWith(suffix, <<" ","="," ","0">>) THEN PySlice(suffix, 0, Len(suffix) - Len(<<" ","="," ","0">>))
  ELSE suffix

\* Lines 226-228: the suffix after " const" is cut.
cut_const_suffix(suffix) ==
  IF EndsWith(suffix, <<" ","c","o","n","s","t">>) THEN PySlice(suffix, 0, Len(suffix) - Len(<<" ","c","o","n","s","t">>))
  ELSE suffix

\* Lines 222-231 with the two steps in the other order: " const" is cut
\* before " = 0".
parse_suffix_const_first(const_or_pure_suffix) ==
  IF cut_pure(cut_const_suffix(const_or_pure_suffix)) # <<>>
  THEN Raise("ParseException", 231)
  ELSE Ok((IF EndsWith(cut_const_suffix(const_or_pure_suffix), <<" ","="," ","0">>)
           THEN [pure_virtual |-> TRUE] ELSE EmptyDict)
          @@ (IF EndsWith(const_or_pure_suffix, <<" ","c","o","n","s","t">>)
              THEN [is_const |-> TRUE] ELSE EmptyDict))

\* Lines 222-231: the text after the closing parenthesis.
parse_suffix(const_or_pure_suffix) ==
  IF cut_const_suffix(cut_pure(const_or_pure_suffix)) # <<>>
  THEN Raise("ParseException", 231)
  ELSE Ok((IF EndsWith(const_or_pure_suffix, <<" ","="," ","0">>) THEN [pure_virtual |-> TRUE]
           ELSE EmptyDict)
          @@ (IF EndsWith(cut_pure(const_or_pure_suffix), <<" ","c","o","n","s","t">>)
              THEN [is_const |-> TRUE] ELSE EmptyDict))

\* Lines 204-207.
name_end_index_of(signature_string) ==
  IF StartsWith(signature_string, <<"o","p","e","r","a","t","o","r","(",")">>)
  THEN Find(signature_string, <<"(">>, Len(<<"o","p","e","r","a","t","o","r","(",")">>))
  ELSE Find(signature_string, <<"(">>, 0)

\* Line 210.
signature_string_parts2_of(signature_string) ==
  RSplit1(Strip(PyFrom(signature_string, name_end_index_of(signature_string) + 1)), <<")">>)

\* Lines 209-231: what the signature adds to data, once the arguments and the
\* suffix are read in this order.
signature_result(name, arguments, suffix) ==
  IF ~IsOk(arguments) THEN arguments
  ELSE IF ~IsOk(suffix) THEN suffix
  ELSE Ok(Put(suffix.val @@ arguments.val, "name", name))

\* Lines 204-231: a row whose signature is not a bare identifier.
parse_signature(signature_string) ==
  IF ~StartsWith(signature_string, <<"o","p","e","r","a","t","o","r","(",")">>) /\ name_end_index_of(signature_string) < 0
  THEN Raise("Exception", 208)
  ELSE IF Len(signature_string_parts2_of(signature_string)) # 2
  THEN Raise("ParseException", 211)
  ELSE signature_result(
         Strip(PySlice(signature_string, 0, name_end_index_of(signature_string))),
         parse_argument_list(argument_list_template_dirty_fix(
           Split(Strip(signature_string_parts2_of(signature_string)[1]), <<",">>))),
         parse_suffix(signature_string_parts2_of(signature_string)[2]))

\* Lines 234-249 without the check of lines 247-249: a method without a
\* return type passes.
check_no_return_type(data, class_name) ==
  IF ~Truthy(class_name) THEN Ok(data)
  ELSE IF data["name"] = class_name[1]
  THEN IF "return_type" \in DOMAIN data THEN Raise("ParseException", 239)
       ELSE Ok(Put(data, "constructor", TRUE))
  ELSE IF data["name"] = <<"~">> \o class_name[1]
  THEN IF "return_type" \in DOMAIN data THEN Raise("ParseException", 243)
       ELSE Ok(Put(data, "destructor", TRUE))
  ELSE Ok(data)

\* Lines 234-249 without the checks of lines 238-239 and 242-243: a
\* constructor or destructor with a return type passes.
check_any_return_type(data, class_name) ==
  IF ~Truthy(class_name) THEN Ok(data)
  ELSE IF data["name"] = class_name[1] THEN Ok(Put(data, "constructor", TRUE))
  ELSE IF data["name"] = <<"~">> \o class_name[1] THEN Ok(Put(data, "destructor", TRUE))
  ELSE IF "operator" \in DOMAIN data THEN Ok(data)
  ELSE IF "return_type" \notin DOMAIN data THEN Raise("ParseException", 249)
  ELSE Ok(data)

\* Lines 234-249: the constructor, destructor and return type rules.
check_return_type(data, class_name) ==
  IF ~Truthy(class_name) THEN Ok(data)
  ELSE IF data["name"] = class_name[1]
  THEN IF "return_type" \in DOMAIN data THEN Raise("ParseException", 239)
       ELSE Ok(Put(data, "constructor", TRUE))
  ELSE IF data["name"] = <<"~">> \o class_name[1]
  THEN IF "return_type" \in DOMAIN data THEN Raise("ParseException", 243)
       ELSE Ok(Put(data, "destructor", TRUE))
  ELSE IF "operator" \in DOMAIN data THEN Ok(data)
  ELSE IF "return_type" \notin DOMAIN data THEN Raise("ParseException", 249)
  ELSE Ok(data)

\* Lines 232-249: the operator suffix, then the rules above.
classify_method(data, class_name) ==
  check_return_type(
    IF StartsWith(data["name"], <<"o","p","e","r","a","t","o","r">>)
    THEN Put(data, "operator", Strip(PyFrom(data["name"], Len(<<"o","p","e","r","a","t","o","r">>))))
    ELSE data,
    class_name)

\* Lines 193-195: the return type text after "virtual" is cut.
cut_virtual(return_type_string) ==
  IF StartsWith(return_type_string, <<"v","i","r","t","u","a","l">>)
  THEN Strip(PyFrom(return_type_string, Len(<<"v","i","r","t","u","a","l">>)))
  ELSE return_type_string

\* Lines 185-195: data before the return type is read.
row_data(return_type_string, class_name, section_attrs) ==
  (IF StartsWith(return_type_string, <<"v","i","r","t","u","a","l">>) THEN [virtual |-> TRUE] ELSE EmptyDict)
  @@ Put(section_attrs, "scope", IF Truthy(class_name) THEN "class" ELSE "global")

\* Lines 196-249: return_type is the outcome of parse_type at line 197 and
\* signature that of reading a signature that is not a bare identifier; data
\* is the row's data before line 196.
row_result(return_type_string, signature_string, class_name, data, return_type, signature) ==
  IF cut_virtual(return_type_string) # <<>> /\ ~IsOk(return_type) THEN return_type
  ELSE IF IsWord(signature_string)
  THEN IF cut_virtual(return_type_string) = <<>> THEN Raise("KeyError", 201)
       ELSE Ok(Put(Put(Put(data, "name", signature_string), "variable", TRUE),
                   "type", return_type.val))
  ELSE IF ~IsOk(signature) THEN signature
  ELSE classify_method(
         signature.val
         @@ (IF cut_virtual(return_type_string) # <<>>
             THEN Put(data, "return_type", return_type.val) ELSE data),
         class_name)

\* Lines 185-249: the body of the try of one row.  [exc |-> "continue"] is the
\* continue of a typedef row.
parse_row(return_type_string, signature_string, class_name, section_attrs) ==
  IF return_type_string = <<"t","y","p","e","d","e","f">> THEN [exc |-> "continue"]
  ELSE row_result(return_type_string, signature_string, class_name,
                  row_data(return_type_string, class_name, section_attrs),
                  parse_type(cut_virtual(return_type_string)),
                  parse_signature(signature_string))

\* A line of the log: its level and the source line that writes it.
LogLine(level, line, what) == [level |-> level, line |-> line, what |-> what]

\* What the handler of parse_methods does with an exception of the row's try:
\* "except TypeParseException" skips the row, anything else leaves
\* parse_methods.
RowHandlerCatches(exc) == Catches("TypeParseException", exc)

\* Lines 179-253 for one row: the raise of line 181, or the outcome of the
\* body of the try.
row_outcome(row, class_name, section_attrs) ==
  IF Len(row.tds) # 2 THEN Raise("InvalidLayoutException", 181)
  ELSE parse_row(Strip(row.tds[1]), Strip(row.tds[2]), class_name, section_attrs)

\* The row raised and the handler of line 252 caught it.
RowSkipped(r) == r.exc \notin {"none", "continue"} /\ RowHandlerCatches(r.exc)

\* The row raised and nothing in parse_methods caught it.
RowRaises(r) == r.exc \notin {"none", "continue"} /\ ~RowHandlerCatches(r.exc)

IsSkipped(r) == r.skipped

\* Line 253: the warnings of the rows skipped, in order.
skipped_log(table, rows) ==
  [k \in 1..Len(SelectSeq([i \in 1..Len(rows) |->
                             [skipped |-> RowSkipped(rows[i]), i |-> i]], IsSkipped)) |->
     LogLine("warning", 253,
             Strip(table[SelectSeq([i \in 1..Len(rows) |->
                                      [skipped |-> RowSkipped(rows[i]), i |-> i]],
                                   IsSkipped)[k].i].tds[2]))]

\* Lines 177-255: the outcomes of the rows in order give the descriptors and
\* the warnings, or the first exception that leaves parse_methods.
methods_of_rows(table, rows) ==
  IF \E i \in 1..Len(rows) : RowRaises(rows[i])
  THEN rows[FirstIndex({ i \in 1..Len(rows) : RowRaises(rows[i]) })]
  ELSE Ok([result |-> Values(SelectSeq(rows, IsOk)), log |-> skipped_log(table, rows)])

\* Returns Ok([result |-> the descriptors, log |-> the warnings]) or what a
\* row raised.
parse_methods(table, class_name, section_attrs) ==
  methods_of_rows(table, [i \in 1..Len(table) |->
                            row_outcome(table[i], class_name, section_attrs)])

\* soup.find("h2", id=id) and the table after it: <<>> or <<table>>.
FindSection(soup, id) ==
  IF id \in DOMAIN soup.sections THEN <<soup.sections[id]>> ELSE <<>>

parse_section(soup, class_name, id, attrs) ==
  LET t == FindSection(soup, id)
  IN IF t = <<>> THEN Ok([result |-> <<>>, log |-> <<>>])
     ELSE parse_methods(t[1], class_name, attrs)

RECURSIVE parse_methods_for_typedefs_from(_, _, _)
parse_methods_for_typedefs_from(table, i, result) ==
  IF i > Len(table) THEN Ok(result)
  ELSE IF Len(table[i].tds) # 2 THEN Raise("InvalidLayoutException", 168)
  ELSE parse_methods_for_typedefs_from(
         table, i + 1,
         IF Strip(table[i].tds[1]) = <<"t","y","p","e","d","e","f">>
         THEN Append(result, Strip(table[i].tds[2])) ELSE result)

parse_section_for_typedefs(soup, id) ==
  LET t == FindSection(soup, id)
  IN IF t = <<>> THEN Ok(<<>>) ELSE parse_methods_for_typedefs_from(t[1], 1, <<>>)

\* row.text of every row of the section, or None (<<>>, like an empty list,
\* is not kept by the caller).
parse_macros(soup, id) ==
  LET t == FindSection(soup, id)
  IN IF t = <<>> THEN <<>>
     ELSE [i \in 1..Len(t[1]) |-> Join(<<>>, t[1][i].tds)]

\* ------------------------------------------------- parse_inherits

\* The rows of the summary table from index i on.
RECURSIVE parse_inherits_from(_, _)
parse_inherits_from(rows, i) ==
  IF i > Len(rows) THEN Ok(NoneVal)
  ELSE IF Len(rows[i].tds) # 2 THEN parse_inherits_from(rows, i + 1)
  ELSE IF Strip(rows[i].tds[1]) = <<"I","n","h","e","r","i","t","s",":">>
  THEN IF rows[i].link = <<>> THEN Ok(NoneVal) ELSE parse_type(rows[i].link[1].text)
  ELSE parse_inherits_from(rows, i + 1)

parse_inherits(soup) ==
  IF soup.title = <<>> \/ soup.summary = <<>> THEN Raise("InvalidLayoutException", 287)
  ELSE parse_inherits_from(soup.summary[1], 1)

\* --------------------------------------------- parse_nested_types

\* Lines 312-329: the rows of one value table from index i on.  acc holds the
\* values kept and the log lines; a name is kept once, with its first value.
RECURSIVE parse_value_rows(_, _, _, _)
parse_value_rows(rows, i, class_name_or_namespace, acc) ==
  IF i > Len(rows) THEN Ok(acc)
  ELSE IF rows[i].th THEN parse_value_rows(rows, i + 1, class_name_or_namespace, acc)
  ELSE
    LET tds    == rows[i].tds
        name0  == Strip(tds[1])
        prefix == class_name_or_namespace[1] \o <<":",":">>
        name   == IF Truthy(class_name_or_namespace)
                  THEN PyFrom(name0, Len(prefix)) ELSE name0
        value  == [name |-> name, value |-> Strip(tds[2]),
                   description |-> IF Len(tds) > 2 THEN tds[3] ELSE <<>>]
        seen   == { j \in 1..Len(acc.values) : acc.values[j].name = name }
        first  == acc.values[CHOOSE j \in seen : TRUE]
    IN IF Len(tds) \notin {2, 3} THEN Raise("InvalidLayoutException", 317)
       ELSE IF Truthy(class_name_or_namespace) /\ ~StartsWith(name0, prefix)
       THEN Raise("ParseException", 321)
       ELSE IF seen # {}
       THEN parse_value_rows(rows, i + 1, class_name_or_namespace,
              [acc EXCEPT !.log =
                 @ \o <<LogLine("error", 324, name)>>
                   \o (IF value.value # first.value
                       THEN <<LogLine("error", 326, name)>> ELSE <<>>)])
       ELSE parse_value_rows(rows, i + 1, class_name_or_namespace,
              [acc EXCEPT !.values = Append(@, value)])

\* Lines 330-336: the name of the nearest preceding anchor that ends in
\* "-enum"; anchors holds the name attribute (or None) of the preceding
\* anchors, nearest first.
RECURSIVE FindEnumAnchor(_)
FindEnumAnchor(anchors) ==
  IF anchors = <<>> THEN <<>>
  ELSE IF Truthy(anchors[1]) /\ EndsWith(anchors[1][1], <<"-","e","n","u","m">>) THEN anchors[1]
  ELSE FindEnumAnchor(Tail(anchors))

\* Lines 305-339: the value tables from index i on; acc.all_values maps an
\* anchor to its values.
RECURSIVE parse_value_tables(_, _, _, _)
\* Lines 337-339: values is the outcome of the rows of table i.
add_values(tables, i, class_name_or_namespace, acc, values, found_name) ==
  IF ~IsOk(values) THEN values
  ELSE IF found_name = <<>> THEN Raise("ParseException", 338)
  ELSE parse_value_tables(tables, i + 1, class_name_or_namespace,
         [all_values |->
            Put(acc.all_values, found_name[1],
                (IF found_name[1] \in DOMAIN acc.all_values
                 THEN acc.all_values[found_name[1]] ELSE <<>>) \o values.val.values),
          log |-> acc.log \o values.val.log])

parse_value_tables(tables, i, class_name_or_namespace, acc) ==
  IF i > Len(tables) THEN Ok(acc)
  ELSE IF class_name_or_namespace = <<<<"Q","J","s","o","n","V","a","l","u","e">>>> /\ tables[i].h3 = <<<<"t","o","V","a","r","i","a","n","t">>>>
  THEN parse_value_tables(tables, i + 1, class_name_or_namespace, acc)
  ELSE add_values(tables, i, class_name_or_namespace, acc,
                  parse_value_rows(tables[i].rows, 1, class_name_or_namespace,
                                   [values |-> <<>>, log |-> <<>>]),
                  FindEnumAnchor(tables[i].anchors))

\* The table of the types header: "Typesx", else "public-types", else "types".
FindTypesTable(soup) ==
  IF FindSection(soup, "Typesx") # <<>> THEN FindSection(soup, "Typesx")
  ELSE IF FindSection(soup, "public-types") # <<>> THEN FindSection(soup, "public-types")
  ELSE FindSection(soup, "types")

\* Lines 352-369: the enum rows from index i on.
RECURSIVE parse_enum_rows(_, _, _, _)
parse_enum_rows(rows, i, all_values, acc) ==
  IF i > Len(rows) THEN Ok(acc)
  ELSE
    LET tds    == rows[i].tds
        link   == rows[i].link
        href   == link[1].href[1]
        anchor == Split(href, <<"#">>)[2]
        name   == Strip(Split(tds[2], <<"{">>)[1])
    IN IF Len(tds) # 2 THEN Raise("ParseException", 354)
       ELSE IF tds[1] # <<"e","n","u","m">> THEN parse_enum_rows(rows, i + 1, all_values, acc)
       ELSE IF link = <<>> THEN Raise("ParseException", 358)
       ELSE IF ~Truthy(link[1].href) THEN Raise("ParseException", 359)
       ELSE IF ~Contains(href, <<"#">>) THEN Raise("ParseException", 360)
       ELSE IF anchor \notin DOMAIN all_values THEN Raise("ParseException", 364)
       ELSE parse_enum_rows(rows, i + 1, all_values,
              [all_types |-> Append(acc.all_types,
                               [kind |-> <<"e","n","u","m">>, name |-> name,
                                values |-> all_values[anchor]]),
               link_href_to_enum |-> Put(acc.link_href_to_enum, href, name)])

\* Lines 371-391: the rows that are not enum rows, from index i on.
RECURSIVE parse_other_rows(_, _, _, _)
parse_other_rows(rows, i, link_href_to_enum, all_types) ==
  IF i > Len(rows) THEN Ok(all_types)
  ELSE
    LET tds  == rows[i].tds
        link == rows[i].link
        name == Strip(tds[2])
    IN IF Len(tds) # 2 THEN Raise("ParseException", 373)
       ELSE IF tds[1] = <<"e","n","u","m">>
       THEN parse_other_rows(rows, i + 1, link_href_to_enum, all_types)
       ELSE IF tds[1] = <<"f","l","a","g","s">>
       THEN IF link = <<>> THEN Raise("ParseException", 379)
            ELSE IF ~Truthy(link[1].href) THEN Raise("ParseException", 380)
            ELSE IF link[1].href[1] \notin DOMAIN link_href_to_enum
            THEN Raise("ParseException", 382)
            ELSE parse_other_rows(rows, i + 1, link_href_to_enum,
                   Append(all_types,
                          [kind |-> <<"f","l","a","g","s">>, name |-> name,
                           enum |-> link_href_to_enum[link[1].href[1]]]))
       ELSE parse_other_rows(rows, i + 1, link_href_to_enum,
              Append(all_types, [kind |-> tds[1], name |-> name]))

\* Lines 393-400.
found_nested_types(class_name_or_namespace, log, all_types) ==
  IF ~IsOk(all_types) THEN all_types
  ELSE Ok([result |-> all_types.val
                      \o (IF class_name_or_namespace = <<<<"Q","B","y","t","e","A","r","r","a","y">>>>
                          THEN << [kind |-> <<"t","y","p","e","d","e","f">>, name |-> <<"i","t","e","r","a","t","o","r">>],
                                  [kind |-> <<"t","y","p","e","d","e","f">>, name |-> <<"c","o","n","s","t","_","i","t","e","r","a","t","o","r">>] >>
                          ELSE <<>>),
           log |-> log])

\* Lines 371-400: enums is the outcome of the first loop over the rows.
other_nested_types(rows, class_name_or_namespace, log, enums) ==
  IF ~IsOk(enums) THEN enums
  ELSE found_nested_types(class_name_or_namespace, log,
         parse_other_rows(rows, 1, enums.val.link_href_to_enum, enums.val.all_types))

\* Lines 341-400: values is the outcome of the loop over the value tables.
listed_nested_types(class_name_or_namespace, values, types_header) ==
  IF ~IsOk(values) THEN values
  ELSE IF types_header = <<>> THEN Ok([result |-> <<>>, log |-> values.val.log])
  ELSE other_nested_types(types_header[1], class_name_or_namespace, values.val.log,
         parse_enum_rows(types_header[1], 1, values.val.all_values,
                         [all_types |-> <<>>, link_href_to_enum |-> EmptyDict]))

\* Returns Ok([result |-> the nested types, log |-> the log lines]) or what
\* was raised.
parse_nested_types(soup, class_name_or_namespace) ==
  listed_nested_types(class_name_or_namespace,
                      parse_value_tables(soup.valuelists, 1, class_name_or_namespace,
                                         [all_values |-> EmptyDict, log |-> <<>>]),
                      FindTypesTable(soup))

\* ------------------------------------------------------ parse_doc

\* Lines 466-475: the sections of a class page and their attributes.
ClassSections ==
  << [id |-> "public-functions",         attrs |-> EmptyDict],
     [id |-> "protected-functions",      attrs |-> [protected |-> TRUE]],
     [id |-> "public-slots",             attrs |-> [slot |-> TRUE]],
     [id |-> "protected-slots",          attrs |-> [slot |-> TRUE, protected |-> TRUE]],
     [id |-> "static-public-members",    attrs |-> [static |-> TRUE]],
     [id |-> "static-protected-members", attrs |-> [static |-> TRUE, protected |-> TRUE]],
     [id |-> "signals",                  attrs |-> [signal |-> TRUE]],
     [id |-> "related-non-members",      attrs |-> EmptyDict] >>

\* Lines 483-490: types the documentation of a header fails to declare.
ExtraNotNestedTypes ==
  << [include_file |-> <<"Q","B","y","t","e","A","r","r","a","y">>,  kind |-> <<"c","l","a","s","s">>, name |-> <<"Q","B","y","t","e","R","e","f">>],
     [include_file |-> <<"Q","B","i","t","A","r","r","a","y">>,   kind |-> <<"c","l","a","s","s">>, name |-> <<"Q","B","i","t","R","e","f">>],
     [include_file |-> <<"Q","S","t","r","i","n","g">>,     kind |-> <<"c","l","a","s","s">>, name |-> <<"Q","C","h","a","r","R","e","f">>],
     [include_file |-> <<"Q","J","s","o","n","V","a","l","u","e">>,  kind |-> <<"c","l","a","s","s">>, name |-> <<"Q","J","s","o","n","V","a","l","u","e","R","e","f">>],
     [include_file |-> <<"Q","T","e","x","t","S","t","r","e","a","m">>, kind |-> <<"c","l","a","s","s">>, name |-> <<"Q","T","e","x","t","S","t","r","e","a","m","M","a","n","i","p","u","l","a","t","o","r">>] >>

\* Lines 495-513.
ExtraNestedTypes ==
  << [include_file |-> <<"Q","H","a","s","h","I","t","e","r","a","t","o","r">>,        kind |-> <<"t","e","m","p","l","a","t","e","_","t","y","p","e">>, name |-> <<"I","t","e","m">>],
     [include_file |-> <<"Q","M","u","t","a","b","l","e","H","a","s","h","I","t","e","r","a","t","o","r">>, kind |-> <<"t","e","m","p","l","a","t","e","_","t","y","p","e">>, name |-> <<"I","t","e","m">>],
     [include_file |-> <<"Q","M","a","p","I","t","e","r","a","t","o","r">>,         kind |-> <<"t","e","m","p","l","a","t","e","_","t","y","p","e">>, name |-> <<"I","t","e","m">>],
     [include_file |-> <<"Q","M","u","t","a","b","l","e","M","a","p","I","t","e","r","a","t","o","r">>,  kind |-> <<"t","e","m","p","l","a","t","e","_","t","y","p","e">>, name |-> <<"I","t","e","m">>],
     [include_file |-> <<"Q","F","l","a","g","s">>,               kind |-> <<"t","e","m","p","l","a","t","e","_","t","y","p","e">>, name |-> <<"E","n","u","m">>],
     [include_file |-> <<"Q","F","l","a","g","s">>,               kind |-> <<"t","e","m","p","l","a","t","e","_","t","y","p","e">>, name |-> <<"Z","e","r","o">>],
     [include_file |-> <<"Q","S","h","a","r","e","d","P","o","i","n","t","e","r">>,       kind |-> <<"t","e","m","p","l","a","t","e","_","t","y","p","e">>, name |-> <<"D","e","l","e","t","e","r">>],
     [include_file |-> <<"Q","V","a","r","L","e","n","g","t","h","A","r","r","a","y">>,      kind |-> <<"t","e","m","p","l","a","t","e","_","t","y","p","e">>, name |-> <<"P","r","e","a","l","l","o","c">>],
     [include_file |-> <<"Q","V","a","r","L","e","n","g","t","h","A","r","r","a","y">>,      kind |-> <<"t","e","m","p","l","a","t","e","_","t","y","p","e">>, name |-> <<"P","r","e","a","l","l","o","c","1">>],
     [include_file |-> <<"Q","V","a","r","L","e","n","g","t","h","A","r","r","a","y">>,      kind |-> <<"t","e","m","p","l","a","t","e","_","t","y","p","e">>, name |-> <<"P","r","e","a","l","l","o","c","2">>],
     [include_file |-> <<"Q","P","a","i","r">>,                kind |-> <<"t","e","m","p","l","a","t","e","_","t","y","p","e">>, name |-> <<"T","T","1">>],
     [include_file |-> <<"Q","P","a","i","r">>,                kind |-> <<"t","e","m","p","l","a","t","e","_","t","y","p","e">>, name |-> <<"T","T","2">>],
     [include_file |-> <<"Q","H","a","s","h">>,                kind |-> <<"t","e","m","p","l","a","t","e","_","t","y","p","e">>, name |-> <<"I","n","p","u","t","I","t","e","r","a","t","o","r">>],
     [include_file |-> <<"Q","V","a","r","i","a","n","t">>,             kind |-> <<"e","n","u","m">>,          name |-> <<"T","y","p","e">>] >>

\* The entries of an extras table for one include file, as type dicts.
RECURSIVE ExtrasFor(_, _)
ExtrasFor(table, include_file) ==
  IF table = <<>> THEN <<>>
  ELSE (IF table[1].include_file = include_file
        THEN << [kind |-> table[1].kind, name |-> table[1].name] >> ELSE <<>>)
       \o ExtrasFor(Tail(table), include_file)

\* Lines 459-464: the typedefs found among the related non-members.
RECURSIVE NotNestedTypedefs(_, _)
NotNestedTypedefs(found_typedefs, class) ==
  IF found_typedefs = <<>> THEN <<>>
  ELSE (IF class = <<"Q","T","i","m","e","Z","o","n","e">> /\ found_typedefs[1] = <<"O","f","f","s","e","t","D","a","t","a","L","i","s","t">> THEN <<>>
        ELSE << [kind |-> <<"t","y","p","e","d","e","f">>, name |-> found_typedefs[1]] >>)
       \o NotNestedTypedefs(Tail(found_typedefs), class)

\* Lines 466-477: the outcomes of the sections in order give the methods and
\* the log, or the first exception raised.
methods_of_sections(sections) ==
  IF \E i \in 1..Len(sections) : ~IsOk(sections[i])
  THEN sections[FirstIndex({ i \in 1..Len(sections) : ~IsOk(sections[i]) })]
  ELSE Ok([result |-> Flatten([i \in 1..Len(sections) |-> sections[i].val.result]),
           log |-> Flatten([i \in 1..Len(sections) |-> sections[i].val.log])])

parse_class_sections(soup, class_without_namespace) ==
  methods_of_sections(
    [i \in 1..Len(ClassSections) |->
       parse_section(soup,
                     IF ClassSections[i].id = "related-non-members" THEN <<>>
                     ELSE <<class_without_namespace>>,
                     ClassSections[i].id, ClassSections[i].attrs)])

\* Lines 414-415 and 478-480.
add_macros(result, macros) ==
  IF macros # <<>> THEN Put(result, "macros", macros) ELSE result

\* Lines 427-429.
global_methods(result, log, methods) ==
  IF ~IsOk(methods) THEN methods
  ELSE Ok([result |-> Put(result, "methods", methods.val.result),
           log |-> log \o methods.val.log])

\* Lines 416-429.
global_nested_types(soup, title, result, nested_types) ==
  IF ~IsOk(nested_types) THEN nested_types
  ELSE IF title # <<"Q","t"," ","N","a","m","e","s","p","a","c","e">> /\ Find(title, <<">">>, 0) = 0
  THEN Raise("ParseException", 424)
  ELSE global_methods(
         IF title = <<"Q","t"," ","N","a","m","e","s","p","a","c","e">>
         THEN Put(Put(Put(result, "include_file", <<"Q","t">>),
                      "nested_types", nested_types.val.result),
                  "nested_types_namespace", <<"Q","t">>)
         ELSE Put(Put(result, "nested_types", nested_types.val.result),
                  "include_file", PySlice(title, 1, Find(title, <<">">>, 0))),
         nested_types.val.log,
         parse_section(soup, <<>>, "Functions", EmptyDict))

\* Lines 412-429: a page of global declarations.
parse_global_doc(soup) ==
  global_nested_types(soup, soup.title[1],
                      add_macros([type |-> "global"], parse_macros(soup, "Macrosx")),
                      parse_nested_types(soup,
                                         IF soup.title[1] = <<"Q","t"," ","N","a","m","e","s","p","a","c","e">>
                                         THEN <<<<"Q","t">>>> ELSE <<>>))

\* Lines 483-493.
add_extra_not_nested_types(result) ==
  IF ExtrasFor(ExtraNotNestedTypes, result["include_file"]) # <<>>
  THEN Put(result, "not_nested_types",
           (IF "not_nested_types" \in DOMAIN result
            THEN result["not_nested_types"] ELSE <<>>)
           \o ExtrasFor(ExtraNotNestedTypes, result["include_file"]))
  ELSE result

\* Lines 495-516.
add_extra_nested_types(result) ==
  Put(result, "nested_types",
      result["nested_types"] \o ExtrasFor(ExtraNestedTypes, result["include_file"]))

\* Lines 457-464.
add_not_nested_typedefs(result, found_typedefs) ==
  IF found_typedefs # <<>>
  THEN Put(result, "not_nested_types", NotNestedTypedefs(found_typedefs, result["class"]))
  ELSE result

\* Lines 445-519: the outcomes of the calls in the order they are made give
\* the header's data, or the first exception raised.
class_result(soup, result, nested_types, inherits, found_typedefs, methods) ==
  IF ~IsOk(nested_types) THEN nested_types
  ELSE IF ~IsOk(inherits) THEN inherits
  ELSE IF ~IsOk(found_typedefs) THEN found_typedefs
  ELSE IF ~IsOk(methods) THEN methods
  ELSE Ok([result |->
             add_extra_nested_types(add_extra_not_nested_types(add_macros(
               add_not_nested_typedefs(
                 Put(Put(Put(Put(result, "nested_types", nested_types.val.result),
                             "nested_types_namespace", result["class"]),
                         "inherits", inherits.val),
                     "methods", methods.val.result),
                 found_typedefs.val),
               parse_macros(soup, "macros")))),
           log |-> nested_types.val.log \o methods.val.log])

\* Lines 434-519.
class_named(soup, class_without_namespace, class) ==
  class_result(soup,
               [type |-> "class", class |-> class,
                include_file |-> IF soup.subtitle # <<>> THEN Split(class, <<":",":">>)[1]
                                 ELSE class_without_namespace],
               parse_nested_types(soup, <<class>>),
               parse_inherits(soup),
               parse_section_for_typedefs(soup, "related-non-members"),
               parse_class_sections(soup, class_without_namespace))

\* Lines 432-519.
class_title(soup, title_parts) ==
  IF ~(Len(title_parts) = 2 /\ Strip(title_parts[2]) = <<"C","l","a","s","s">>)
  THEN Raise("ParseException", 452)
  ELSE class_named(soup, Strip(title_parts[1]),
                   IF soup.subtitle # <<>>
                   THEN StripSet(soup.subtitle[1], {" ", "(", ")"})
                   ELSE Strip(title_parts[1]))

\* Lines 431-519: a class page.
parse_class_doc(soup) == class_title(soup, Split(soup.title[1], <<" ">>))

\* Returns Ok([result |-> the header's data, log |-> the log lines]) or what
\* was raised.
parse_doc(soup) ==
  IF soup.title = <<>> THEN Raise("InvalidLayoutException", 409)
  ELSE IF StartsWith(soup.title[1], <<"<","Q","t">>) \/ soup.title[1] = <<"Q","t"," ","N","a","m","e","s","p","a","c","e">>
  THEN parse_global_doc(soup)
  ELSE parse_class_doc(soup)

\* Lines 525-533: the names of the files that hold nothing useful.
bad_endings ==
  << <<"m","e","m","b","e","r","s">>, <<"o","b","s","o","l","e","t","e">>, <<"c","o","m","p","a","t">>, <<"e","x","a","m","p","l","e">>, <<"p","r","o">>, <<"c","p","p">>, <<"h">>, <<"u","i">> >>

bad_files ==
  << <<"c","o","d","e","c","-","b","i","g","5">>, <<"c","o","d","e","c","-","e","u","c","k","r">>, <<"c","o","d","e","c","-","e","u","c","j","p">>, <<"c","o","d","e","c","-","g","b","k">>,
     <<"c","o","d","e","c","-","t","s","c","i","i">>, <<"c","o","d","e","c","-","b","i","g","5","h","k","s","c","s">>, <<"c","o","d","e","c","s","-","j","i","s">>, <<"c","o","d","e","c","-","s","j","i","s">>,
     <<"s","i","g","n","a","l","s","a","n","d","s","l","o","t","s">>, <<"e","v","e","n","t","s">>, <<"a","n","i","m","a","t","i","o","n">>, <<"o","b","j","e","c","t">>, <<"c","o","n","t","a","i","n","e","r","s">>, <<"i","o">>,
     <<"p","l","u","g","i","n","s">>, <<"e","v","e","n","t","s","a","n","d","f","i","l","t","e","r","s">>, <<"s","t","a","t","e","m","a","c","h","i","n","e","-","a","p","i">>, <<"q","t","c","o","r","e","-","m","o","d","u","l","e">>, <<"p","r","o","p","e","r","t","i","e","s">>,
     <<"i","m","p","l","i","c","i","t","-","s","h","a","r","i","n","g">>, <<"a","n","i","m","a","t","i","o","n","-","o","v","e","r","v","i","e","w">>, <<"r","e","s","o","u","r","c","e","s">>, <<"d","a","t","a","s","t","r","e","a","m","f","o","r","m","a","t">>,
     <<"t","i","m","e","r","s">>, <<"s","h","a","r","e","d">>, <<"c","u","s","t","o","m","-","t","y","p","e","s">>, <<"q","t","c","o","r","e","-","i","n","d","e","x">>, <<"s","t","a","t","e","m","a","c","h","i","n","e">>, <<"i","o","-","f","u","n","c","t","i","o","n","s">>,
     <<"o","b","j","e","c","t","t","r","e","e","s">>, <<"j","s","o","n">>, <<"m","e","t","a","o","b","j","e","c","t","s">> >>

\* Lines 536-545.
IsBlacklistedFile(basename) ==
  \/ \E k \in 1..Len(bad_endings) : EndsWith(basename, <<"-">> \o bad_endings[k] \o <<".","h","t","m","l">>)
  \/ \E k \in 1..Len(bad_files) : basename = bad_files[k] \o <<".","h","t","m","l">>

\* ---------------------------------------------- known_basic_types

\* Lines 565-606: the names registered before any document, with their origin.
KnownTypes ==
  << [origin |-> "c_built_in",
      names  |-> << <<"v","o","i","d">>, <<"f","l","o","a","t">>, <<"d","o","u","b","l","e">>, <<"b","o","o","l">>,
                    <<"c","h","a","r">>, <<"s","i","g","n","e","d"," ","c","h","a","r">>, <<"u","n","s","i","g","n","e","d"," ","c","h","a","r">>,
                    <<"s","h","o","r","t">>, <<"s","i","g","n","e","d"," ","s","h","o","r","t">>, <<"u","n","s","i","g","n","e","d"," ","s","h","o","r","t">>,
                    <<"i","n","t">>, <<"s","i","g","n","e","d"," ","i","n","t">>, <<"u","n","s","i","g","n","e","d"," ","i","n","t">>,
                    <<"l","o","n","g">>, <<"s","i","g","n","e","d"," ","l","o","n","g">>, <<"u","n","s","i","g","n","e","d"," ","l","o","n","g">>,
                    <<"l","o","n","g"," ","l","o","n","g"," ","i","n","t">>, <<"u","n","s","i","g","n","e","d"," ","l","o","n","g"," ","l","o","n","g"," ","i","n","t">>,
                    <<"w","c","h","a","r","_","t">>, <<"s","i","z","e","_","t">> >>],
     [origin |-> "mac_os_native",
      names  |-> << <<"C","F","D","a","t","a","R","e","f">>, <<"C","F","U","R","L","R","e","f">>, <<"N","S","D","a","t","a">>, <<"N","S","S","t","r","i","n","g">>, <<"C","F","S","t","r","i","n","g","R","e","f">>,
                    <<"N","S","U","R","L">>, <<"N","S","D","a","t","e">>, <<"C","F","D","a","t","e","R","e","f">> >>],
     [origin |-> "windows_native",
      names  |-> << <<"G","U","I","D">>, <<"H","A","N","D","L","E">> >>],
     [origin |-> "cpp_std",
      names  |-> << <<"v","a","_","l","i","s","t">>, <<"F","I","L","E">>,
                    <<"s","t","d",":",":","s","t","r","i","n","g">>, <<"s","t","d",":",":","u","1","6","s","t","r","i","n","g">>, <<"s","t","d",":",":","u","3","2","s","t","r","i","n","g">>, <<"s","t","d",":",":","l","i","s","t">>,
                    <<"s","t","d",":",":","w","s","t","r","i","n","g">>, <<"s","t","d",":",":","i","n","i","t","i","a","l","i","z","e","r","_","l","i","s","t">>,
                    <<"s","t","d",":",":","p","a","i","r">>, <<"s","t","d",":",":","m","a","p">>, <<"s","t","d",":",":","v","e","c","t","o","r">> >>],
     [origin |-> "template_argument",
      names  |-> << <<"T">>, <<"T","1">>, <<"T","2">>, <<"X">>, <<"K","e","y">>, <<"F","o","r","w","a","r","d","I","t","e","r","a","t","o","r">>, <<"C","o","n","t","a","i","n","e","r">>,
                    <<"C","l","e","a","n","u","p">> >>],
     [origin |-> "function_pointer",
      names  |-> << <<"P","o","i","n","t","e","r","T","o","M","e","m","b","e","r","F","u","n","c","t","i","o","n">>, <<"M","e","m","b","e","r","F","u","n","c","t","i","o","n">>, <<"M","e","m","b","e","r","F","u","n","c","t","i","o","n","O","k">>,
                    <<"U","n","a","r","y","F","u","n","c","t","i","o","n">>, <<"F","u","n","c","t","o","r">>, <<"Q","t","C","l","e","a","n","U","p","F","u","n","c","t","i","o","n">> >>],
     [origin |-> "fake", names |-> << <<"Q","W","i","d","g","e","t">> >>],
     [origin |-> "fake", names |-> << <<"Q","V","e","r","s","i","o","n","N","u","m","b","e","r">> >>],
     [origin |-> "fake",
      names  |-> << <<"Q","M","a","p","<","K","e","y",","," ","T",">",":",":","c","o","n","s","t","_","i","t","e","r","a","t","o","r">>, <<"Q","M","a","p","<","K","e","y",","," ","T",">",":",":","i","t","e","r","a","t","o","r">>,
                    <<"Q","H","a","s","h","<","K","e","y",","," ","T",">",":",":","c","o","n","s","t","_","i","t","e","r","a","t","o","r">>, <<"Q","H","a","s","h","<","K","e","y",","," ","T",">",":",":","i","t","e","r","a","t","o","r">>,
                    <<"Q","M","a","p","<","K","e","y",","," "," ","T",">",":",":","c","o","n","s","t","_","i","t","e","r","a","t","o","r">> >>] >>

\* The registry and the log after one write: the entry stored under name is
\* replaced, and a warning is logged when name was a key already.
RegWrite(st, name, type_data, line) ==
  [types_data |-> Put(st.types_data, name, type_data),
   log |-> IF name \in DOMAIN st.types_data
           THEN Append(st.log, LogLine("warning", line, name)) ELSE st.log]

\* Lines 560-563.
\* The registry and the log after a list of writes [name, type_data, line]
\* made in order: each name holds what was stored last, and each write to a
\* name that was a key already logs a warning.
IsRewrite(w) == w.rewrite

RegWrites(st, writes) ==
  [types_data |->
     [name \in DOMAIN st.types_data \cup { writes[i].name : i \in 1..Len(writes) } |->
        IF \E i \in 1..Len(writes) : writes[i].name = name
        THEN writes[LastIndex({ i \in 1..Len(writes) : writes[i].name = name })].type_data
        ELSE st.types_data[name]],
   log |-> st.log \o
     [k \in 1..Len(SelectSeq(
          [i \in 1..Len(writes) |->
             [rewrite |-> \/ writes[i].name \in DOMAIN st.types_data
                          \/ \E j \in 1..(i - 1) : writes[j].name = writes[i].name,
              line |-> LogLine("warning", writes[i].line, writes[i].name)]],
          IsRewrite)) |->
        SelectSeq(
          [i \in 1..Len(writes) |->
             [rewrite |-> \/ writes[i].name \in DOMAIN st.types_data
                          \/ \E j \in 1..(i - 1) : writes[j].name = writes[i].name,
              line |-> LogLine("warning", writes[i].line, writes[i].name)]],
          IsRewrite)[k].line]]

\* Lines 560-563: the calls of add_known_type for one list of names.
add_known_names(names, origin) ==
  [k \in 1..Len(names) |-> [name |-> names[k], type_data |-> [origin |-> origin], line |-> 562]]

\* Lines 565-606.  Returns [types_data, log].
known_basic_types ==
  RegWrites([types_data |-> EmptyDict, log |-> <<>>],
            Flatten([g \in 1..Len(KnownTypes) |->
                       add_known_names(KnownTypes[g].names, KnownTypes[g].origin)]))

\* --------------------------------------------------- add_qt_types

HasKey(d, k) == k \in DOMAIN d

\* header_data.get("inherits", None) is a type (not absent, not None).
HasInherits(header_data) ==
  HasKey(header_data, "inherits") /\ ~IsNone(header_data["inherits"])

\* Lines 612-616.
doc_page_exists_for_class(hd, name) ==
  \E k \in 1..Len(hd) : HasKey(hd[k], "class") /\ hd[k]["class"] = name

\* Lines 619-626: the class of a class page.  The entry's inherits is the very
\* object held by the header (an assignment of a reference): [ref |-> h] names
\* header h's inherits, so that what the resolver later writes into the one is
\* read from the other.
add_class_type(st, hd, h) ==
  LET header_data == hd[h]
      t0 == [kind |-> <<"c","l","a","s","s">>, origin |-> "qt", qt_header |-> header_data["include_file"]]
      type_data == IF HasInherits(header_data) THEN Put(t0, "inherits", [ref |-> h]) ELSE t0
  IN IF HasKey(header_data, "class")
     THEN RegWrite(st, header_data["class"], type_data, 625)
     ELSE st

\* Lines 627-641: the nested types of a header, from index i on.
RECURSIVE add_nested_types(_, _, _, _)
add_nested_types(st, hd, h, i) ==
  LET header_data == hd[h]
      nested == IF HasKey(header_data, "nested_types")
                THEN header_data["nested_types"] ELSE <<>>
      t      == nested[i]
      has_ns == HasKey(header_data, "nested_types_namespace")
      ns     == header_data["nested_types_namespace"]
      name   == IF has_ns THEN ns \o <<":",":">> \o t["name"] ELSE t["name"]
      d0     == Put(Put(Drop(t, "name"), "origin", "qt"),
                    "qt_header", header_data["include_file"])
      type_data == IF has_ns /\ HasKey(d0, "enum")
                   THEN Put(d0, "enum", ns \o <<":",":">> \o d0["enum"]) ELSE d0
  IN IF i > Len(nested) THEN st
     ELSE add_nested_types(
            IF doc_page_exists_for_class(hd, name) THEN st
            ELSE RegWrite(st, name, type_data, 640),
            hd, h, i + 1)

\* Lines 642-649: the types of a header that are not nested, from index i on.
RECURSIVE add_not_nested_types(_, _, _, _)
add_not_nested_types(st, hd, h, i) ==
  LET header_data == hd[h]
      nn == IF HasKey(header_data, "not_nested_types")
            THEN header_data["not_nested_types"] ELSE <<>>
      t  == nn[i]
      type_data == Put(Put(Drop(t, "name"), "origin", "qt"),
                       "qt_header", header_data["include_file"])
  IN IF i > Len(nn) THEN st
     ELSE add_not_nested_types(RegWrite(st, t["name"], type_data, 648), hd, h, i + 1)

\* Lines 619-649 for header h: returns [types_data, log].
add_qt_types_header(st, hd, h) ==
  add_not_nested_types(add_nested_types(add_class_type(st, hd, h), hd, h, 1), hd, h, 1)

\* Lines 650-652.
pop_type_lists(header_data) ==
  Drop(Drop(Drop(header_data, "nested_types_namespace"), "nested_types"),
       "not_nested_types")

\* ------------------------------------------------ fix_method_types

\* The nodes of a type in the order fix_nested_types visits them: the template
\* arguments first (each with its own arguments first), then the type itself.
\* A node is the path of argument indices that leads to it.
RECURSIVE PostOrder(_, _)
PostOrder(t, path) ==
  LET args == IF HasKey(t, "template_arguments") THEN t["template_arguments"] ELSE <<>>
      Sub[i \in 0..Len(args)] ==
        IF i = 0 THEN <<>> ELSE Sub[i - 1] \o PostOrder(args[i], Append(path, i))
  IN Sub[Len(args)] \o <<path>>

RECURSIVE NodeAt(_, _)
NodeAt(t, path) ==
  IF path = <<>> THEN t ELSE NodeAt(t["template_arguments"][Head(path)], Tail(path))

\* t with the node at path replaced by a type of the base alone.
RECURSIVE SetBaseAtFresh(_, _, _)
SetBaseAtFresh(t, path, base) ==
  IF path = <<>> THEN Put(EmptyDict, "base", base)
  ELSE Put(t, "template_arguments",
           [t["template_arguments"] EXCEPT
              ![Head(path)] = SetBaseAtFresh(@, Tail(path), base)])

\* t with the base of the node at path set to base.
RECURSIVE SetBaseAt(_, _, _)
SetBaseAt(t, path, base) ==
  IF path = <<>> THEN Put(t, "base", base)
  ELSE Put(t, "template_arguments",
           [t["template_arguments"] EXCEPT
              ![Head(path)] = SetBaseAt(@, Tail(path), base)])

\* A resolver without the rule of lines 772-774.
NoAliasBase(base) == base

\* Lines 772-774.
AliasBase(base) ==
  IF base = <<"Q","F","i","l","e",":",":","P","e","r","m","i","s","s","i","o","n","s">> THEN <<"Q","F","i","l","e","D","e","v","i","c","e",":",":","P","e","r","m","i","s","s","i","o","n","s">> ELSE base

\* The candidates of line 782 tried the other way round: the least specific
\* first.
CandidatesLeastSpecificFirst(namespace_parts, base) ==
  [k \in 1..(Len(namespace_parts) + 1) |->
     Join(<<":",":">>, Append(SubSeq(namespace_parts, 1, k - 1), base))]

\* Line 782 for i = Len(namespace_parts) down to 0, as a sequence: the
\* candidates in the order they are tried.
Candidates(namespace_parts, base) ==
  [k \in 1..(Len(namespace_parts) + 1) |->
     Join(<<":",":">>, Append(SubSeq(namespace_parts, 1, Len(namespace_parts) + 1 - k), base))]

\* Lines 781-787: the first candidate that is a key of the registry, as
\* <<candidate>>, or <<>>.
FirstRegistered(cands, td) ==
  LET hits == { k \in 1..Len(cands) : cands[k] \in DOMAIN td }
  IN IF hits = {} THEN <<>> ELSE << cands[CHOOSE k \in hits : \A j \in hits : k <= j] >>

\* A pass of the loop that never switches to the base class: a search without
\* a registered candidate ends at line 798.
WalkPassWithoutSwitch(base, current_namespace, namespace_parts, td, hd) ==
  IF FirstRegistered(Candidates(IF Truthy(current_namespace)
                                THEN Split(current_namespace[1], <<":",":">>)
                                ELSE namespace_parts, base), td) # <<>>
  THEN [kind |-> "resolved",
        candidate |-> FirstRegistered(Candidates(IF Truthy(current_namespace)
                                                 THEN Split(current_namespace[1], <<":",":">>)
                                                 ELSE namespace_parts, base), td)[1]]
  ELSE [kind |-> "raise", exc |-> Raise("NoTypeOriginException", 798)]

\* One pass of the loop of lines 777-796 for a type whose base is base, with
\* the loop's variables current_namespace (<<>> is None) and namespace_parts.
\* inherits_of(name) is types_data[name]["inherits"].  The outcome is one of
\*   [kind |-> "resolved", candidate]      line 785-787
\*   [kind |-> "switch", ns, parts]        line 792, the loop goes on
\*   [kind |-> "raise", exc]               line 798, or the KeyError of line 789
WalkPass(base, current_namespace, namespace_parts, td, hd) ==
  LET parts == IF Truthy(current_namespace)
               THEN Split(current_namespace[1], <<":",":">>) ELSE namespace_parts
      hit   == FirstRegistered(Candidates(parts, base), td)
      entry == td[current_namespace[1]]
      n     == hd[entry["inherits"].ref]["inherits"]
  IN IF hit # <<>> THEN [kind |-> "resolved", candidate |-> hit[1]]
     ELSE IF Truthy(current_namespace) /\ current_namespace[1] \in DOMAIN td
     THEN IF ~HasKey(entry, "inherits")
          THEN [kind |-> "raise", exc |-> Raise("KeyError", 789)]
          ELSE [kind |-> "switch", ns |-> <<n["base"]>>, parts |-> parts]
     ELSE [kind |-> "raise", exc |-> Raise("NoTypeOriginException", 798)]

\* The types of method m that the resolver visits, in order: the return type,
\* then the type of each argument (line 817-820).  A slot names the field, the
\* argument and the node.
MethodSlots(m) ==
  LET ret  == IF HasKey(m, "return_type")
              THEN [k \in 1..Len(PostOrder(m["return_type"], <<>>)) |->
                      [field |-> "return_type", arg |-> 0,
                       path |-> PostOrder(m["return_type"], <<>>)[k]]]
              ELSE <<>>
      args == IF HasKey(m, "arguments") THEN m["arguments"] ELSE <<>>
      OfArg(a) == [k \in 1..Len(PostOrder(args[a]["type"], <<>>)) |->
                     [field |-> "arguments", arg |-> a,
                      path |-> PostOrder(args[a]["type"], <<>>)[k]]]
      Sub[a \in 0..Len(args)] == IF a = 0 THEN <<>> ELSE Sub[a - 1] \o OfArg(a)
  IN ret \o Sub[Len(args)]

\* Line 811-812: the nodes of the header's inherits type.
InheritsSlots(header_data) ==
  IF HasInherits(header_data)
  THEN [k \in 1..Len(PostOrder(header_data["inherits"], <<>>)) |->
          [field |-> "inherits", arg |-> 0,
           path |-> PostOrder(header_data["inherits"], <<>>)[k]]]
  ELSE <<>>

\* The type a slot of header_data (and of its method m) lies in.
SlotType(header_data, m, slot) ==
  IF slot.field = "inherits" THEN header_data["inherits"]
  ELSE IF slot.field = "return_type" THEN header_data["methods"][m]["return_type"]
  ELSE header_data["methods"][m]["arguments"][slot.arg]["type"]

SlotBase(header_data, m, slot) == NodeAt(SlotType(header_data, m, slot), slot.path)["base"]

\* header_data with the base of the slot's node set to base.
SetSlotBase(header_data, m, slot, base) ==
  LET t == SetBaseAt(SlotType(header_data, m, slot), slot.path, base)
  IN IF slot.field = "inherits" THEN Put(header_data, "inherits", t)
     ELSE IF slot.field = "return_type"
     THEN Put(header_data, "methods",
              [header_data["methods"] EXCEPT ![m] = Put(@, "return_type", t)])
     ELSE Put(header_data, "methods",
              [header_data["methods"] EXCEPT ![m] =
                 Put(@, "arguments",
                     [@["arguments"] EXCEPT ![slot.arg] = Put(@, "type", t)])])

\* The names of the entries with data.get("kind") == "typedef".
TypedefNames(td) ==
  { name \in DOMAIN td : HasKey(td[name], "kind") /\ td[name]["kind"] = <<"t","y","p","e","d","e","f">> }

\* A pruning step that finds no typedef to remove.
NoUnusedTypedefs(td, used) == {}

\* A pruning step that removes every typedef.
AllTypedefs(td, used) == TypedefNames(td)

\* Lines 824-828: the typedefs that no resolved type names.
UnusedTypedefs(td, used) == TypedefNames(td) \ used

Without(td, names) == [name \in (DOMAIN td) \ names |-> td[name]]

\* ------------------------------------------------ add_typedef_data

\* Lines 672-678.
IteratorTypedefs(td) ==
  { name \in DOMAIN td :
      /\ HasKey(td[name], "kind") /\ td[name]["kind"] = <<"t","y","p","e","d","e","f">>
      /\ \/ EndsWith(name, <<":",":","C","o","n","s","t","I","t","e","r","a","t","o","r">>)
         \/ EndsWith(name, <<":",":","I","t","e","r","a","t","o","r">>)
         \/ EndsWith(name, <<":",":","i","t","e","r","a","t","o","r","_","c","a","t","e","g","o","r","y">>) }

\* Lines 655-659: the first base of t, itself first and then its template
\* arguments in order, that is no key of the registry, as <<base>>; <<>> when
\* every base is a key.
RECURSIVE check_type(_, _)
check_type(t, td) ==
  LET args == IF HasKey(t, "template_arguments") THEN t["template_arguments"] ELSE <<>>
      Sub[i \in 0..Len(args)] ==
        IF i = 0 THEN <<>>
        ELSE IF Sub[i - 1] # <<>> THEN Sub[i - 1] ELSE check_type(args[i], td)
  IN IF t["base"] \notin DOMAIN td THEN <<t["base"]>> ELSE Sub[Len(args)]

\* An add_meaning that leaves the registry as it is.
add_no_meaning(td, name, meaning) == Ok(td)

\* An add_meaning that checks the name only: the bases of the meaning are not
\* looked up.
add_unchecked_meaning(td, name, meaning) ==
  LET meaning_parsed == parse_type(meaning)
  IN IF ~IsOk(meaning_parsed) THEN meaning_parsed
     ELSE IF name \notin DOMAIN td THEN Raise("ParseException", 664)
     ELSE Ok(Put(td, name, Put(td[name], "meaning", meaning_parsed.val)))

\* Lines 661-668: Ok(the registry with the meaning set) or what is raised.
add_meaning(td, name, meaning) ==
  LET meaning_parsed == parse_type(meaning)
  IN IF ~IsOk(meaning_parsed) THEN meaning_parsed
     ELSE IF name \notin DOMAIN td THEN Raise("ParseException", 664)
     ELSE IF check_type(meaning_parsed.val, td) # <<>> THEN Raise("ParseException", 657)
     ELSE IF meaning_parsed.val["base"] \notin DOMAIN td THEN Raise("ParseException", 667)
     ELSE Ok(Put(td, name, Put(td[name], "meaning", meaning_parsed.val)))

\* Lines 685-723, abridged to one typedef of each shape the list holds: a
\* meaning that is one built-in name (line 685) and a meaning with a template
\* argument (line 714).
WellKnownTypedefs ==
  << [name |-> <<"q","i","n","t","8">>,       meaning |-> <<"s","i","g","n","e","d"," ","c","h","a","r">>],
     [name |-> <<"Q","O","b","j","e","c","t","L","i","s","t">>, meaning |-> <<"Q","L","i","s","t","<","Q","O","b","j","e","c","t",">">>] >>

\* Lines 726-741.
blacklist ==
  { <<"Q","F","u","n","c","t","i","o","n","P","o","i","n","t","e","r">>, <<"Q","G","l","o","b","a","l","S","t","a","t","i","c",":",":","T","y","p","e">>, <<"Q","E","a","s","i","n","g","C","u","r","v","e",":",":","E","a","s","i","n","g","F","u","n","c","t","i","o","n">>,
    <<"Q","L","o","g","g","i","n","g","C","a","t","e","g","o","r","y",":",":","C","a","t","e","g","o","r","y","F","i","l","t","e","r">>, <<"Q","M","e","s","s","a","g","e","L","o","g","g","e","r",":",":","C","a","t","e","g","o","r","y","F","u","n","c","t","i","o","n">>,
    <<"Q","S","e","t","t","i","n","g","s",":",":","R","e","a","d","F","u","n","c">>, <<"Q","S","e","t","t","i","n","g","s",":",":","W","r","i","t","e","F","u","n","c">>,
    <<"Q","V","a","r","L","e","n","g","t","h","A","r","r","a","y",":",":","c","o","n","s","t","_","i","t","e","r","a","t","o","r">>, <<"Q","V","a","r","L","e","n","g","t","h","A","r","r","a","y",":",":","i","t","e","r","a","t","o","r">>,
    <<"Q","V","e","c","t","o","r",":",":","c","o","n","s","t","_","i","t","e","r","a","t","o","r">>, <<"Q","V","e","c","t","o","r",":",":","c","o","n","s","t","_","r","e","f","e","r","e","n","c","e">>,
    <<"Q","V","e","c","t","o","r",":",":","i","t","e","r","a","t","o","r">>, <<"Q","V","e","c","t","o","r",":",":","r","e","f","e","r","e","n","c","e">>, <<"Q","t","M","e","s","s","a","g","e","H","a","n","d","l","e","r">> }

\* Lines 743-748.
unknown_typedefs(td) ==
  { name \in DOMAIN td :
      /\ HasKey(td[name], "kind") /\ td[name]["kind"] = <<"t","y","p","e","d","e","f">>
      /\ ~HasKey(td[name], "meaning")
      /\ name \notin blacklist }

\* Lines 760-763: the values without the two edit focus items.
RECURSIVE FilterValues(_)
FilterValues(values) ==
  IF values = <<>> THEN <<>>
  ELSE (IF values[1].name # <<"E","n","t","e","r","E","d","i","t","F","o","c","u","s">> /\ values[1].name # <<"L","e","a","v","e","E","d","i","t","F","o","c","u","s">>
        THEN <<values[1]>> ELSE <<>>)
       \o FilterValues(Tail(values))

\* Lines 759-763: Ok(the registry) or the KeyError.
finish_typedef_data(td) ==
  LET td1 == Put(td, <<"Q","V","a","r","i","a","n","t",":",":","T","y","p","e">>, [origin |-> "fake"])
  IN IF <<"Q","E","v","e","n","t",":",":","T","y","p","e">> \notin DOMAIN td1 THEN Raise("KeyError", 760)
     ELSE IF ~HasKey(td1[<<"Q","E","v","e","n","t",":",":","T","y","p","e">>], "values") THEN Raise("KeyError", 761)
     ELSE Ok(Put(td1, <<"Q","E","v","e","n","t",":",":","T","y","p","e">>,
                 Put(td1[<<"Q","E","v","e","n","t",":",":","T","y","p","e">>], "values",
                     FilterValues(td1[<<"Q","E","v","e","n","t",":",":","T","y","p","e">>]["values"]))))

\* ------------------------------------------------------ documents

\* A document is what the HTML layer hands over:
\*   basename    the file name
\*   title       the text of h1.title, or None
\*   subtitle    the text of span.small-subtitle, or None
\*   summary     the rows of the table.alignedsummary after h1, or None
\*   valuelists  the table.valuelist tables in document order, each with the
\*               id of the h3 before it, its rows and the name attributes of
\*               the anchors before it (nearest first)
\*   sections    the table after each h2, by the id of the h2
\* A row holds the text of its td cells and the first link in its second
\* cell: <<>> or <<[text, href]>>.
Row(a, b) == [tds |-> <<a, b>>, link |-> <<>>]

LinkRow(a, b, href) == [tds |-> <<a, b>>, link |-> <<[text |-> b, href |-> href]>>]

ValueRow(name, value) == [th |-> FALSE, tds |-> <<name, value>>]

HeaderRow == [th |-> TRUE, tds |-> <<>>]

ClassPage(basename, title, subtitle, inherits, valuelists, sections) ==
  [basename |-> basename, title |-> <<title>>, subtitle |-> subtitle,
   summary |-> << <<Row(<<"H","e","a","d","e","r",":">>, <<"#","i","n","c","l","u","d","e">>)>>
                  \o (IF inherits = <<>> THEN <<>>
                      ELSE <<LinkRow(<<"I","n","h","e","r","i","t","s",":">>, inherits[1], <<inherits[1]>>)>>) >>,
   valuelists |-> valuelists, sections |-> sections]

GlobalPage(basename, title, sections) ==
  [basename |-> basename, title |-> <<title>>, subtitle |-> <<>>, summary |-> <<>>,
   valuelists |-> <<>>, sections |-> sections]

\* <QtGlobal>: declares the typedefs qint8 and Mode and uses neither.
DocQtGlobal ==
  GlobalPage(<<"q","t","g","l","o","b","a","l",".","h","t","m","l">>, <<"<","Q","t","G","l","o","b","a","l",">"," ","-"," ","G","l","o","b","a","l"," ","Q","t"," ","D","e","c","l","a","r","a","t","i","o","n","s">>,
    [types |-> << Row(<<"t","y","p","e","d","e","f">>, <<"q","i","n","t","8">>), Row(<<"t","y","p","e","d","e","f">>, <<"M","o","d","e">>) >>,
     Functions |-> << Row(<<"i","n","t">>, <<"q","R","o","u","n","d","(","d","o","u","b","l","e"," ","v","a","l","u","e",")">>),
                      Row(<<"v","o","i","d">>, <<"q","D","e","b","u","g","(","c","o","n","s","t"," ","c","h","a","r"," ","*"," ","m","e","s","s","a","g","e",","," ",".",".",".",")">>) >>])

\* QObject: declares the typedefs QObjectList and qint8 among its related
\* non-members and uses both.
DocQObject ==
  ClassPage(<<"q","o","b","j","e","c","t",".","h","t","m","l">>, <<"Q","O","b","j","e","c","t"," ","C","l","a","s","s">>, <<>>, <<>>, <<>>,
    ("public-functions" :>
       << Row(<<>>, <<"Q","O","b","j","e","c","t","(","Q","O","b","j","e","c","t"," ","*"," ","p","a","r","e","n","t"," ","="," ","0",")">>),
          Row(<<"v","i","r","t","u","a","l">>, <<"~","Q","O","b","j","e","c","t","(",")">>),
          Row(<<"c","o","n","s","t"," ","Q","O","b","j","e","c","t","L","i","s","t"," ","&">>, <<"c","h","i","l","d","r","e","n","(",")"," ","c","o","n","s","t">>),
          Row(<<"v","o","i","d">>, <<"s","e","t","D","e","p","t","h","(","q","i","n","t","8"," ","d","e","p","t","h",")">>) >>)
    @@ ("related-non-members" :>
       << Row(<<"t","y","p","e","d","e","f">>, <<"Q","O","b","j","e","c","t","L","i","s","t">>),
          Row(<<"t","y","p","e","d","e","f">>, <<"q","i","n","t","8">>),
          Row(<<"T">>, <<"q","o","b","j","e","c","t","_","c","a","s","t","(","Q","O","b","j","e","c","t"," ","*"," ","o","b","j","e","c","t",")">>) >>))

\* QEvent: the enum Type with its value table.
DocQEvent ==
  ClassPage(<<"q","e","v","e","n","t",".","h","t","m","l">>, <<"Q","E","v","e","n","t"," ","C","l","a","s","s">>, <<>>, <<>>,
    << [h3 |-> <<<<"T","y","p","e","-","e","n","u","m">>>>,
        anchors |-> << <<>>, <<<<"T","y","p","e","-","e","n","u","m">>>>, <<<<"d","e","t","a","i","l","s">>>> >>,
        rows |-> << HeaderRow,
                    ValueRow(<<"Q","E","v","e","n","t",":",":","N","o","n","e">>, <<"0">>),
                    ValueRow(<<"Q","E","v","e","n","t",":",":","T","i","m","e","r">>, <<"1">>),
                    ValueRow(<<"Q","E","v","e","n","t",":",":","E","n","t","e","r","E","d","i","t","F","o","c","u","s">>, <<"1","5","0">>) >>] >>,
    ("public-types" :>
       << LinkRow(<<"e","n","u","m">>, <<"T","y","p","e"," ","{"," ","N","o","n","e",","," ","T","i","m","e","r",","," ","E","n","t","e","r","E","d","i","t","F","o","c","u","s"," ","}">>,
                  <<<<"q","e","v","e","n","t",".","h","t","m","l","#","T","y","p","e","-","e","n","u","m">>>>) >>)
    @@ ("public-functions" :>
       << Row(<<>>, <<"Q","E","v","e","n","t","(","T","y","p","e"," ","t","y","p","e",")">>),
          Row(<<"T","y","p","e">>, <<"t","y","p","e","(",")"," ","c","o","n","s","t">>) >>))

\* QList: a nested typedef Iterator that a method uses, and a row with too
\* much indirection.
DocQList ==
  ClassPage(<<"q","l","i","s","t",".","h","t","m","l">>, <<"Q","L","i","s","t"," ","C","l","a","s","s">>, <<>>, <<>>, <<>>,
    ("public-types" :> << Row(<<"t","y","p","e","d","e","f">>, <<"I","t","e","r","a","t","o","r">>) >>)
    @@ ("public-functions" :>
       << Row(<<>>, <<"Q","L","i","s","t","(",")">>),
          Row(<<"v","o","i","d">>, <<"a","p","p","e","n","d","(","c","o","n","s","t"," ","T"," ","&"," ","v","a","l","u","e",")">>),
          Row(<<"T","*","*","*">>, <<"d","a","t","a","(",")">>),
          Row(<<"v","o","i","d">>, <<"e","r","a","s","e","(","I","t","e","r","a","t","o","r"," ","p","o","s",")">>),
          Row(<<"i","n","t">>, <<"s","i","z","e","(",")"," ","c","o","n","s","t">>) >>))

\* QTimerEvent inherits QEvent and names QEvent's Type.
DocQTimerEvent ==
  ClassPage(<<"q","t","i","m","e","r","e","v","e","n","t",".","h","t","m","l">>, <<"Q","T","i","m","e","r","E","v","e","n","t"," ","C","l","a","s","s">>, <<>>, <<<<"Q","E","v","e","n","t">>>>, <<>>,
    ("public-functions" :>
       << Row(<<>>, <<"Q","T","i","m","e","r","E","v","e","n","t","(","i","n","t"," ","t","i","m","e","r","I","d",")">>),
          Row(<<"b","o","o","l">>, <<"m","a","t","c","h","e","s","(","T","y","p","e"," ","t",")"," ","c","o","n","s","t">>) >>))

\* QDeepEvent inherits QTimerEvent: Type is two classes up.
DocQDeepEvent ==
  ClassPage(<<"q","d","e","e","p","e","v","e","n","t",".","h","t","m","l">>, <<"Q","D","e","e","p","E","v","e","n","t"," ","C","l","a","s","s">>, <<>>, <<<<"Q","T","i","m","e","r","E","v","e","n","t">>>>, <<>>,
    ("public-functions" :>
       << Row(<<"Q","L","i","s","t","<","T","y","p","e",">">>, <<"k","i","n","d","s","(",")"," ","c","o","n","s","t">>) >>))

\* X: the nested typedefs Kind and Mode and the nested class X.
DocX ==
  ClassPage(<<"x",".","h","t","m","l">>, <<"X"," ","C","l","a","s","s">>, <<>>, <<>>, <<>>,
    ("public-types" :> << Row(<<"t","y","p","e","d","e","f">>, <<"K","i","n","d">>), Row(<<"t","y","p","e","d","e","f">>, <<"M","o","d","e">>),
                          Row(<<"c","l","a","s","s">>, <<"X">>) >>)
    @@ ("public-functions" :>
       << Row(<<"K","i","n","d">>, <<"k","i","n","d","(",")"," ","c","o","n","s","t">>) >>))

\* X::X: the nested typedef Kind; names Kind, Mode and qint8.
DocXX ==
  ClassPage(<<"x","-","x",".","h","t","m","l">>, <<"X"," ","C","l","a","s","s">>, <<<<"(","X",":",":","X",")">>>>, <<>>, <<>>,
    ("public-types" :> << Row(<<"t","y","p","e","d","e","f">>, <<"K","i","n","d">>) >>)
    @@ ("public-functions" :>
       << Row(<<"K","i","n","d">>, <<"k","i","n","d","(",")"," ","c","o","n","s","t">>),
          Row(<<"v","o","i","d">>, <<"s","e","t","M","o","d","e","(","M","o","d","e"," ","m",")">>) >>))

\* <QtAlgorithms>: a function with an argument of an unknown type between two
\* known ones, and a function after it.
DocQtAlgorithms ==
  GlobalPage(<<"q","t","a","l","g","o","r","i","t","h","m","s",".","h","t","m","l">>, <<"<","Q","t","A","l","g","o","r","i","t","h","m","s",">"," ","-"," ","G","e","n","e","r","i","c"," ","A","l","g","o","r","i","t","h","m","s">>,
    [Functions |-> << Row(<<"v","o","i","d">>, <<"q","S","o","r","t","(","C","o","n","t","a","i","n","e","r"," ","&"," ","c",","," ","L","e","s","s","T","h","a","n"," ","l","e","s","s","T","h","a","n",","," ","M","o","d","e"," ","m",")">>),
                      Row(<<"v","o","i","d">>, <<"q","S","w","a","p","(","T"," ","&"," ","a",","," ","T"," ","&"," ","b",")">>) >>])

\* QPing inherits QPong and names an unknown type.
DocQPing ==
  ClassPage(<<"q","p","i","n","g",".","h","t","m","l">>, <<"Q","P","i","n","g"," ","C","l","a","s","s">>, <<>>, <<<<"Q","P","o","n","g">>>>, <<>>,
    ("public-functions" :>
       << Row(<<"v","o","i","d">>, <<"f","(","M","i","s","s","i","n","g"," ","m",")">>) >>))

\* QPong inherits QPing.
DocQPong ==
  ClassPage(<<"q","p","o","n","g",".","h","t","m","l">>, <<"Q","P","o","n","g"," ","C","l","a","s","s">>, <<>>, <<<<"Q","P","i","n","g">>>>, <<>>,
    ("public-functions" :>
       << Row(<<"i","n","t">>, <<"g","(",")"," ","c","o","n","s","t">>) >>))

\* QProc: a row with text left after the closing parenthesis, between two
\* rows that parse.
DocQProc ==
  ClassPage(<<"q","p","r","o","c",".","h","t","m","l">>, <<"Q","P","r","o","c"," ","C","l","a","s","s">>, <<>>, <<>>, <<>>,
    ("public-functions" :>
       << Row(<<"v","o","i","d">>, <<"s","t","a","r","t","(",")">>),
          Row(<<"v","o","i","d">>, <<"s","t","o","p","(",")"," ","o","v","e","r","r","i","d","e">>),
          Row(<<"i","n","t">>, <<"p","i","d","(",")"," ","c","o","n","s","t">>) >>))

\* QVar: a bare identifier row without a type.
DocQVar ==
  ClassPage(<<"q","v","a","r",".","h","t","m","l">>, <<"Q","V","a","r"," ","C","l","a","s","s">>, <<>>, <<>>, <<>>,
    ("public-functions" :>
       << Row(<<"i","n","t">>, <<"s","i","z","e","(",")"," ","c","o","n","s","t">>),
          Row(<<>>, <<"c","o","u","n","t">>) >>))

\* The documents a corpus is drawn from.
Catalogue ==
  << DocQtGlobal, DocQObject, DocQEvent, DocQList, DocQTimerEvent, DocQDeepEvent,
     DocX, DocXX, DocQtAlgorithms, DocQPing, DocQPong, DocQProc, DocQVar >>

\* The largest number of documents of a corpus.
MaxDocs == 4

\* The documents of the catalogue with an index in picked, in catalogue order.
RECURSIVE Pick(_, _)
Pick(picked, k) ==
  IF k > Len(Catalogue) THEN <<>>
  ELSE (IF k \in picked THEN <<Catalogue[k]>> ELSE <<>>) \o Pick(picked, k + 1)

Corpora ==
  { Pick(picked, 1) :
      picked \in { p \in SUBSET (1..Len(Catalogue)) :
                     Cardinality(p) >= 1 /\ Cardinality(p) <= MaxDocs } }

\* ---------------------------------------------------------- state

VARIABLES
  corpus,        \* the documents of the input folder, in glob order
  pc,            \* the statement of process() that runs next
  idx,           \* the position of the loop that pc names
  headers_data,  \* headers_data of parse()
  types_data,    \* the registry
  used_types,    \* used_types of fix_method_types
  fix,           \* the position of fix_method_types
  log,           \* the warnings and errors logged so far
  error,         \* the exception that left process(), or None
  passes,        \* the number of resolver passes that have returned
  first_pass,    \* headers_data and the registry keys after the first pass
  argument_typedefs, \* the typedefs that became the base of an argument type
  call           \* a call of one function alone: its input and what it returned

vars ==
  << corpus, pc, idx, headers_data, types_data, used_types, fix, log, error,
     passes, first_pass, argument_typedefs, call >>

\* fix_method_types is not running.
FixIdle == [h |-> 0, m |-> -1, slots |-> <<>>, walk |-> <<>>]

\* No function is called alone.
NoCall == [fn |-> "none"]

Init ==
  /\ corpus \in Corpora
  /\ pc = "parse"
  /\ idx = 1
  /\ headers_data = <<>>
  /\ types_data = EmptyDict
  /\ used_types = {}
  /\ fix = FixIdle
  /\ log = <<>>
  /\ error = NoneVal
  /\ passes = 0
  /\ first_pass = NoneVal
  /\ argument_typedefs = {}
  /\ call = NoCall

\* The handler of parse(), line 553: "except ParseException".
FileHandlerCatches(exc) == Catches("ParseException", exc)

\* Lines 550-554: r is the outcome of parse_doc for the file.  The log keeps the
\* lines of the pages that return; the warnings a page wrote before it raised
\* are left out, and of such a page only the error of line 554 is kept.
KeepOrDrop(basename, r) ==
  IF IsOk(r)
  THEN /\ headers_data' = Append(headers_data, r.val.result)
       /\ log' = log \o r.val.log
       /\ UNCHANGED << error, pc >>
  ELSE IF FileHandlerCatches(r.exc)
  THEN /\ log' = Append(log, LogLine("error", 554, basename))
       /\ UNCHANGED << headers_data, error, pc >>
  ELSE /\ error' = r
       /\ pc' = "raised"
       /\ UNCHANGED << headers_data, log >>

\* Lines 535-554: one file of the folder.
ParseFile ==
  /\ pc = "parse"
  /\ idx <= Len(corpus)
  /\ IF IsBlacklistedFile(corpus[idx].basename)
     THEN UNCHANGED << headers_data, log, error, pc >>
     ELSE KeepOrDrop(corpus[idx].basename, parse_doc(corpus[idx]))
  /\ idx' = idx + 1
  /\ UNCHANGED << call, corpus, types_data, used_types, fix, passes, first_pass, argument_typedefs >>

\* Lines 555 and 834: parse() returns and known_basic_types() fills the
\* registry.
KnownBasicTypes ==
  /\ pc = "parse"
  /\ idx > Len(corpus)
  /\ types_data' = known_basic_types.types_data
  /\ log' = log \o known_basic_types.log
  /\ pc' = "add_qt_types"
  /\ idx' = 1
  /\ UNCHANGED << call, corpus, headers_data, used_types, fix, error, passes, first_pass, argument_typedefs >>

\* Lines 618-652: add_qt_types for one header.
AddQtTypes ==
  /\ pc = "add_qt_types"
  /\ idx <= Len(headers_data)
  /\ LET st == add_qt_types_header([types_data |-> types_data, log |-> log],
                                   headers_data, idx)
     IN /\ types_data' = st.types_data
        /\ log' = st.log
  /\ headers_data' = [headers_data EXCEPT ![idx] = pop_type_lists(@)]
  /\ idx' = idx + 1
  /\ UNCHANGED << call, corpus, pc, used_types, fix, error, passes, first_pass, argument_typedefs >>

\* Line 836 and 767: add_qt_types has returned, fix_method_types starts.
CallFixMethodTypes ==
  /\ pc = "add_qt_types"
  /\ idx > Len(headers_data)
  /\ pc' = "fix_method_types"
  /\ used_types' = {}
  /\ fix' = [h |-> 1, m |-> -1, slots |-> <<>>, walk |-> <<>>]
  /\ UNCHANGED << call, corpus, idx, headers_data, types_data, log, error, passes, first_pass, argument_typedefs >>

\* Lines 801-812: the next header; its inherits type is resolved first.
FixEnterHeader ==
  /\ pc = "fix_method_types"
  /\ fix.m = -1
  /\ fix.h <= Len(headers_data)
  /\ LET header_data == headers_data[fix.h]
     IN /\ log' = IF HasKey(header_data, "class") /\ header_data["methods"] = <<>>
                  THEN Append(log, LogLine("warning", 809, header_data["class"]))
                  ELSE log
        /\ fix' = [fix EXCEPT !.m = 0, !.slots = InheritsSlots(header_data),
                              !.walk = <<>>]
  /\ UNCHANGED << call, corpus, pc, idx, headers_data, types_data, used_types, error,
                  passes, first_pass, argument_typedefs >>

\* The handler of line 821: "except NoTypeOriginException", around the types
\* of one method; the header's inherits type is resolved outside of it.
MethodHandlerCatches(m, exc) == m >= 1 /\ Catches("NoTypeOriginException", exc)

\* Lines 772-798: the alias rule when the walk of a type starts, and one pass
\* of the loop that searches its name.
FixWalk ==
  /\ pc = "fix_method_types"
  /\ fix.m >= 0
  /\ fix.slots # <<>>
  /\ LET h     == fix.h
         slot  == Head(fix.slots)
         start == fix.walk = <<>>
         base  == IF start THEN AliasBase(SlotBase(headers_data[h], fix.m, slot))
                  ELSE SlotBase(headers_data[h], fix.m, slot)
         hd1   == [headers_data EXCEPT ![h] = SetSlotBase(@, fix.m, slot, base)]
         ns    == IF start
                  THEN (IF HasKey(headers_data[h], "class")
                        THEN <<headers_data[h]["class"]>> ELSE <<>>)
                  ELSE fix.walk[1].ns
         parts == IF start THEN <<>> ELSE fix.walk[1].parts
         r     == WalkPass(base, ns, parts, types_data, hd1)
     IN IF r.kind = "resolved"
        THEN /\ headers_data' =
                  [hd1 EXCEPT ![h] = SetSlotBase(@, fix.m, slot, r.candidate)]
             /\ used_types' = used_types \cup {r.candidate}
             /\ argument_typedefs' =
                  IF slot.field = "arguments" /\ r.candidate \in TypedefNames(types_data)
                  THEN argument_typedefs \cup {r.candidate} ELSE argument_typedefs
             /\ fix' = [fix EXCEPT !.slots = Tail(@), !.walk = <<>>]
             /\ UNCHANGED << pc, log, error >>
        ELSE IF r.kind = "switch"
        THEN /\ headers_data' = hd1
             /\ fix' = [fix EXCEPT !.walk = <<[ns |-> r.ns, parts |-> r.parts]>>]
             /\ UNCHANGED << pc, log, error, used_types, argument_typedefs >>
        ELSE IF MethodHandlerCatches(fix.m, r.exc.exc)
        THEN /\ headers_data' = hd1
             /\ log' = Append(log, LogLine("warning", 822,
                          [base |-> base,
                           include_file |-> hd1[h]["include_file"],
                           m |-> hd1[h]["methods"][fix.m]]))
             /\ fix' = [fix EXCEPT !.slots = <<>>, !.walk = <<>>]
             /\ UNCHANGED << pc, error, used_types, argument_typedefs >>
        ELSE /\ headers_data' = hd1
             /\ error' = r.exc
             /\ pc' = "raised"
             /\ UNCHANGED << fix, log, used_types, argument_typedefs >>
  /\ UNCHANGED << call, corpus, idx, types_data, passes, first_pass >>

\* Lines 815-820: the next method of the header, or the end of the header.
FixNextMethod ==
  /\ pc = "fix_method_types"
  /\ fix.m >= 0
  /\ fix.slots = <<>>
  /\ LET methods == headers_data[fix.h]["methods"]
     IN fix' = IF fix.m < Len(methods)
               THEN [fix EXCEPT !.m = fix.m + 1,
                                !.slots = MethodSlots(methods[fix.m + 1]),
                                !.walk = <<>>]
               ELSE [fix EXCEPT !.h = fix.h + 1, !.m = -1, !.walk = <<>>]
  /\ UNCHANGED << call, corpus, pc, idx, headers_data, types_data, used_types, log,
                  error, passes, first_pass, argument_typedefs >>

\* Lines 824-830: the unused typedefs are removed and fix_method_types
\* returns.
FixPrune ==
  /\ pc = "fix_method_types"
  /\ fix.m = -1
  /\ fix.h > Len(headers_data)
  /\ LET bad_names == UnusedTypedefs(types_data, used_types)
     IN /\ types_data' = Without(types_data, bad_names)
        /\ log' = IF bad_names = {} THEN log
                  ELSE Append(log, LogLine("info", 827, bad_names))
  /\ pc' = "fix_returned"
  /\ fix' = FixIdle
  /\ passes' = passes + 1
  /\ UNCHANGED << call, corpus, idx, headers_data, used_types, error, first_pass, argument_typedefs >>

\* Lines 837 and 672-681: add_typedef_data starts and drops the iterator
\* typedefs.
TypedefDropIterators ==
  /\ pc = "fix_returned"
  /\ types_data' = Without(types_data, IteratorTypedefs(types_data))
  /\ pc' = "add_typedef_data"
  /\ idx' = 1
  /\ UNCHANGED << call, corpus, headers_data, used_types, fix, log, error, passes,
                  first_pass, argument_typedefs >>

\* r is the outcome of the add_meaning call.
MeaningAdded(r) ==
  IF IsOk(r)
  THEN /\ types_data' = r.val
       /\ idx' = idx + 1
       /\ UNCHANGED << pc, error >>
  ELSE /\ error' = r
       /\ pc' = "raised"
       /\ UNCHANGED << types_data, idx >>

\* Lines 685-723: one add_meaning call; nothing catches what it raises.
AddMeaning ==
  /\ pc = "add_typedef_data"
  /\ idx <= Len(WellKnownTypedefs)
  /\ MeaningAdded(add_meaning(types_data, WellKnownTypedefs[idx].name,
                              WellKnownTypedefs[idx].meaning))
  /\ UNCHANGED << call, corpus, headers_data, used_types, fix, log, passes, first_pass, argument_typedefs >>

\* Lines 743-763 and 838: the unknown typedefs are reported, the two fixed
\* registry entries are written, and process() returns.
TypedefFinish ==
  /\ pc = "add_typedef_data"
  /\ idx > Len(WellKnownTypedefs)
  /\ LET unknown == unknown_typedefs(types_data)
         r       == finish_typedef_data(types_data)
     IN /\ log' = IF unknown = {} THEN log
                  ELSE Append(log, LogLine("warning", 751, unknown))
        /\ IF IsOk(r)
           THEN /\ types_data' = r.val
                /\ pc' = "done"
                /\ UNCHANGED error
           ELSE /\ types_data' = Put(types_data, <<"Q","V","a","r","i","a","n","t",":",":","T","y","p","e">>, [origin |-> "fake"])
                /\ error' = r
                /\ pc' = "raised"
  /\ UNCHANGED << call, corpus, idx, headers_data, used_types, fix, passes, first_pass, argument_typedefs >>

\* process(), lines 832-838.
Next ==
  \/ ParseFile
  \/ KnownBasicTypes
  \/ AddQtTypes
  \/ CallFixMethodTypes
  \/ FixEnterHeader
  \/ FixWalk
  \/ FixNextMethod
  \/ FixPrune
  \/ TypedefDropIterators
  \/ AddMeaning
  \/ TypedefFinish

Spec == Init /\ [][Next]_vars

\* process() is one thread of control: whenever a statement can run, one does.
FairSpec == Spec /\ WF_vars(FixWalk)

\* ------------------------------------- the resolver applied twice

\* fix_method_types(headers_data, types_data) called again on what the first
\* call left (lines 766-767).
FixAgain ==
  /\ pc = "fix_returned"
  /\ passes = 1
  /\ first_pass' = [headers_data |-> headers_data, keys |-> DOMAIN types_data]
  /\ pc' = "fix_method_types"
  /\ used_types' = {}
  /\ fix' = [h |-> 1, m |-> -1, slots |-> <<>>, walk |-> <<>>]
  /\ UNCHANGED << call, corpus, idx, headers_data, types_data, log, error, passes,
                  argument_typedefs >>

NextTwice ==
  \/ ParseFile
  \/ KnownBasicTypes
  \/ AddQtTypes
  \/ CallFixMethodTypes
  \/ FixEnterHeader
  \/ FixWalk
  \/ FixNextMethod
  \/ FixPrune
  \/ FixAgain

TwiceSpec == Init /\ [][NextTwice]_vars

\* ------------------------------------------ a page of value tables

\* A value table: the id of the h3 before it, the names of the anchors before
\* it (nearest first) and its rows.
ValueTable(anchors, rows) == [h3 |-> <<>>, anchors |-> anchors, rows |-> rows]

\* The values A and B of the enum Kind.
KindTable ==
  ValueTable(<< <<>>, <<<<"K","i","n","d","-","e","n","u","m">>>>, <<<<"d","e","t","a","i","l","s">>>> >>,
             << HeaderRow, ValueRow(<<"Q","K","i","n","d",":",":","A">>, <<"0">>), ValueRow(<<"Q","K","i","n","d",":",":","B">>, <<"1">>) >>)

\* More values of Kind in a table of its own: A again with its value, B with
\* another value, and C.
MoreKindTable ==
  ValueTable(<< <<<<"K","i","n","d","-","e","n","u","m">>>> >>,
             << HeaderRow, ValueRow(<<"Q","K","i","n","d",":",":","A">>, <<"0">>), ValueRow(<<"Q","K","i","n","d",":",":","B">>, <<"2">>),
                ValueRow(<<"Q","K","i","n","d",":",":","C">>, <<"3">>) >>)

\* The values of the enum Mode: M twice with two values, N twice with one.
ModeTable ==
  ValueTable(<< <<<<"M","o","d","e","-","e","n","u","m">>>>, <<<<"K","i","n","d","-","e","n","u","m">>>> >>,
             << HeaderRow, ValueRow(<<"Q","K","i","n","d",":",":","M">>, <<"0">>), ValueRow(<<"Q","K","i","n","d",":",":","M">>, <<"1">>),
                ValueRow(<<"Q","K","i","n","d",":",":","N">>, <<"2">>), ValueRow(<<"Q","K","i","n","d",":",":","N">>, <<"2">>) >>)

\* A value table with no anchor before it whose name ends in "-enum".
NoAnchorTable ==
  ValueTable(<< <<>>, <<<<"d","e","t","a","i","l","s">>>> >>, << HeaderRow, ValueRow(<<"Q","K","i","n","d",":",":","D">>, <<"0">>) >>)

\* A value table with a value that lacks the prefix "QKind::".
NoPrefixTable ==
  ValueTable(<< <<<<"F","l","a","g","-","e","n","u","m">>>> >>,
             << HeaderRow, ValueRow(<<"Q","K","i","n","d",":",":","F">>, <<"0">>), ValueRow(<<"G">>, <<"1">>) >>)

ValueTables == { KindTable, MoreKindTable, ModeTable, NoAnchorTable, NoPrefixTable }

\* The largest number of value tables of a page.
MaxTables == 2

TableLists == UNION { [1..n -> ValueTables] : n \in 0..MaxTables }

\* The tables of a list that are of an enum.
HasTableOf(tables, enum_anchor) ==
  \E i \in 1..Len(tables) :
    tables[i] \notin { NoAnchorTable, NoPrefixTable }
    /\ FindEnumAnchor(tables[i].anchors) = <<enum_anchor>>

\* The page of class QKind with the value tables given: its types table lists
\* the enums whose values the page holds and the typedef Alias.
ValuePage(tables) ==
  ClassPage(<<"q","k","i","n","d",".","h","t","m","l">>, <<"Q","K","i","n","d"," ","C","l","a","s","s">>, <<>>, <<>>, tables,
    ("public-types" :>
       (IF HasTableOf(tables, <<"K","i","n","d","-","e","n","u","m">>)
        THEN << LinkRow(<<"e","n","u","m">>, <<"K","i","n","d"," ","{"," ","A",","," ","B"," ","}">>, <<<<"q","k","i","n","d",".","h","t","m","l","#","K","i","n","d","-","e","n","u","m">>>>) >>
        ELSE <<>>)
       \o (IF HasTableOf(tables, <<"M","o","d","e","-","e","n","u","m">>)
           THEN << LinkRow(<<"e","n","u","m">>, <<"M","o","d","e"," ","{"," ","M",","," ","N"," ","}">>, <<<<"q","k","i","n","d",".","h","t","m","l","#","M","o","d","e","-","e","n","u","m">>>>) >>
           ELSE <<>>)
       \o << Row(<<"t","y","p","e","d","e","f">>, <<"A","l","i","a","s">>) >>)
    @@ ("public-functions" :>
       << Row(<<>>, <<"Q","K","i","n","d","(",")">>),
          Row(<<"v","o","i","d">>, <<"s","e","t","A","l","i","a","s","(","A","l","i","a","s"," ","a",")">>),
          Row(<<"i","n","t">>, <<"s","i","z","e","(",")"," ","c","o","n","s","t">>) >>))

\* Outer::Base: a class of the namespace Outer.
DocOuterBase ==
  ClassPage(<<"o","u","t","e","r","-","b","a","s","e",".","h","t","m","l">>, <<"B","a","s","e"," ","C","l","a","s","s">>, <<<<"(","O","u","t","e","r",":",":","B","a","s","e",")">>>>, <<>>, <<>>,
    ("public-functions" :>
       << Row(<<>>, <<"B","a","s","e","(",")">>),
          Row(<<"i","n","t">>, <<"s","i","z","e","(",")"," ","c","o","n","s","t">>) >>))

\* Outer::Derived: inherits Base, which the page names without its namespace;
\* a variable of type Base and two methods that name Base.
DocOuterDerived ==
  ClassPage(<<"o","u","t","e","r","-","d","e","r","i","v","e","d",".","h","t","m","l">>, <<"D","e","r","i","v","e","d"," ","C","l","a","s","s">>, <<<<"(","O","u","t","e","r",":",":","D","e","r","i","v","e","d",")">>>>,
    <<<<"B","a","s","e">>>>, <<>>,
    ("public-functions" :>
       << Row(<<"B","a","s","e">>, <<"p","e","e","r">>),
          Row(<<"v","o","i","d">>, <<"a","t","t","a","c","h","(","c","o","n","s","t"," ","B","a","s","e"," ","&"," ","b",")">>),
          Row(<<"B","a","s","e"," ","*">>, <<"b","a","s","e","(",")"," ","c","o","n","s","t">>) >>))

\* <QtFiles>: functions that name QFile::Permissions and an unknown type
\* Missing, neither of which a page declares.
DocQtFiles ==
  GlobalPage(<<"q","t","f","i","l","e","s",".","h","t","m","l">>, <<"<","Q","t","F","i","l","e","s",">"," ","-"," ","F","i","l","e"," ","F","u","n","c","t","i","o","n","s">>,
    [Functions |->
       << Row(<<"b","o","o","l">>, <<"q","S","e","t","P","e","r","m","i","s","s","i","o","n","s","(","C","o","n","t","a","i","n","e","r"," ","&"," ","c",","," ","Q","F","i","l","e",":",":","P","e","r","m","i","s","s","i","o","n","s"," ","p",","," ","Q","F","i","l","e",":",":","P","e","r","m","i","s","s","i","o","n","s"," ","q",")">>),
          Row(<<"q","i","n","t","8">>, <<"q","P","a","i","r","s","(","s","t","d",":",":","p","a","i","r","<","i","n","t",","," ","M","i","s","s","i","n","g",">"," ","p",","," ","M","o","d","e"," ","m",")">>) >>])

\* The folders of the two classes of Outer, alone and with some of
\* qtalgorithms.html, qtfiles.html and qtglobal.html.
NestedCorpora ==
  { << DocOuterBase, DocOuterDerived >> \o rest :
      rest \in { <<>>, <<DocQtGlobal>>, <<DocQtAlgorithms>>, <<DocQtFiles>>,
                 <<DocQtAlgorithms, DocQtGlobal>>, <<DocQtFiles, DocQtGlobal>>,
                 <<DocQtAlgorithms, DocQtFiles, DocQtGlobal>> } }

\* The folders of the page, qlist.html and qobject.html, and the folders of
\* the classes of Outer.
PageCorpora ==
  { << ValuePage(tables), DocQList, DocQObject >> : tables \in TableLists }
  \cup NestedCorpora

PageInit ==
  /\ corpus \in PageCorpora
  /\ pc = "parse"
  /\ idx = 1
  /\ headers_data = <<>>
  /\ types_data = EmptyDict
  /\ used_types = {}
  /\ fix = FixIdle
  /\ log = <<>>
  /\ error = NoneVal
  /\ passes = 0
  /\ first_pass = NoneVal
  /\ argument_typedefs = {}
  /\ call = NoCall

PageSpec == PageInit /\ [][Next]_vars

\* ------------------------------------------- one function called alone

\* A type text of the shape [const ]Name[<A1, ..., An>][suffix]: args is <<>>
\* without a template and <<the list A1..An>> with one; gap is the text
\* between the name (or the template) and the suffix.
TypeShape(const, name, args, gap, suffix) ==
  [const |-> const, name |-> name, args |-> args, gap |-> gap, suffix |-> suffix]

\* The text of a shape.
RECURSIVE TypeText(_)
TypeText(t) ==
  (IF t.const THEN <<"c","o","n","s","t"," ">> ELSE <<>>) \o t.name
  \o (IF t.args = <<>> THEN <<>>
      ELSE <<"<">> \o Join(<<","," ">>, [i \in 1..Len(t.args[1]) |-> TypeText(t.args[1][i])]) \o <<">">>)
  \o t.gap \o t.suffix

\* The template arguments inside the shapes.
ArgShapes ==
  { TypeShape(FALSE, <<"i","n","t">>, <<>>, <<>>, <<>>),
    TypeShape(FALSE, <<"T">>, <<>>, <<>>, <<>>),
    TypeShape(TRUE, <<"T">>, <<>>, <<" ">>, <<"&">>),
    TypeShape(FALSE, <<"K","e","y">>, <<>>, <<>>, <<"*">>),
    TypeShape(FALSE, <<"Q","P","a","i","r">>,
              << << TypeShape(FALSE, <<"i","n","t">>, <<>>, <<>>, <<>>),
                    TypeShape(FALSE, <<"T">>, <<>>, <<>>, <<>>) >> >>, <<>>, <<>>) }

\* The largest number of template arguments of a shape.
MaxTemplateArgs == 2

ArgLists == UNION { [1..n -> ArgShapes] : n \in 0..MaxTemplateArgs }

\* Nothing after the name, or one of the suffixes, with or without a space
\* before it.
Endings ==
  { [gap |-> <<>>, suffix |-> <<>>] }
  \cup { [gap |-> g, suffix |-> IndirectionSuffixes[i]] :
           g \in { <<>>, <<" ">> }, i \in 1..Len(IndirectionSuffixes) }

TypeShapes ==
  { TypeShape(c, n, a, e.gap, e.suffix) :
      c \in BOOLEAN, n \in { <<"i","n","t">>, <<"F","o","o",":",":","B","a","r">> },
      a \in { <<>> } \cup { <<l>> : l \in ArgLists }, e \in Endings }

\* The largest number of characters after the name of a marker text.
MaxMarkers == 4

\* A name followed by indirection characters and spaces.
MarkerTexts ==
  { <<"i","n","t">> \o m : m \in UNION { [1..n -> { "*", "&", " " }] : n \in 0..MaxMarkers } }

\* Texts of other forms.
OddTexts ==
  { <<>>, <<" ">>, <<" ","i","n","t"," ">>, <<"s","i","g","n","e","d"," ","c","h","a","r">>, <<"u","n","s","i","g","n","e","d"," ","l","o","n","g"," ","l","o","n","g"," ","i","n","t">>, <<"c","o","n","s","t"," ","c","o","n","s","t"," ","i","n","t">>,
    <<"F","o","o","<","i","n","t">>, <<"i","n","t",","," ","T">>, <<"Q","M","a","p","<","K","e","y",","," ","T",">",":",":","i","t","e","r","a","t","o","r">>, <<"c","o","n","s","t"," ","Q","L","i","s","t","<","c","o","n","s","t"," ","Q","C","h","a","r"," ","*",">"," ","*","&">> }

\* The rows parse_methods is called with: the text of the two cells and the
\* class name (None: <<>>).
ReturnTypeTexts ==
  { <<>>, <<"i","n","t">>, <<"v","i","r","t","u","a","l">>, <<"v","i","r","t","u","a","l"," ","v","o","i","d">>, <<"F","o","o">>, <<"T","*","*","*">> }

SignatureTexts ==
  { <<"F","o","o","(",")">>, <<"F","o","o","(","i","n","t"," ","x",")">>, <<"~","F","o","o","(",")">>, <<"b","a","r","(",")">>, <<"b","a","r","(","i","n","t"," ","a",")"," ","c","o","n","s","t">>, <<"b","a","z","(",")"," ","="," ","0">>,
    <<"b","a","r","(",")"," ","c","o","n","s","t"," ","="," ","0">>, <<"b","a","r","(",")"," ","="," ","0"," ","c","o","n","s","t">>, <<"b","a","r","(",")"," ","o","v","e","r","r","i","d","e">>, <<"c","o","u","n","t">>, <<"F","o","o">>, <<"o","p","e","r","a","t","o","r","=","=","(","c","o","n","s","t"," ","F","o","o"," ","&"," ","o","t","h","e","r",")"," ","c","o","n","s","t">>,
    <<"o","p","e","r","a","t","o","r","(",")","(","i","n","t"," ","a",")">> }

ClassNames == { <<>>, <<<<"F","o","o">>>> }

\* The largest number of characters of a generated argument list.
MaxListChars == 5

\* The argument lists split: every text of a name, '<', '>' and ',' up to
\* that length, and lists as they are written.
ListTexts ==
  UNION { [1..n -> { "a", "<", ">", "," }] : n \in 0..MaxListChars }
  \cup { <<"Q","M","a","p","<","A",",","B",">"," ","a",","," ","i","n","t"," ","b">>, <<"Q","P","a","i","r","<","q","r","e","a","l",","," ","Q","V","a","r","i","a","n","t",">">>, <<"i","n","t"," ","a",","," ","Q","M","a","p","<","A",","," ","B","<","C",","," ","D",">",">"," ","m",","," ","T"," ","t">>,
         <<"i","n","t"," ","a"," ","="," ","p","-",">","x",","," ","Q","M","a","p","<","A",",","B",">"," ","m">>, <<"i","n","t"," ","a"," ","="," ","1"," ","<","<"," ","2",","," ","i","n","t"," ","b">>, <<" ","a"," ",","," ","b"," ">> }

\* The argument texts parse_argument is called with.
ArgumentTexts ==
  { <<"i","n","t">>, <<"b","o","o","l">>, <<"i","n","t"," ","a">>, <<"b","o","o","l"," ","o","k","=","t","r","u","e">>, <<"c","o","n","s","t"," ","Q","S","t","r","i","n","g"," ","&"," ","s"," ","="," ","Q","S","t","r","i","n","g","(",")">>,
    <<"Q","t",":",":","W","i","n","d","o","w","F","l","a","g","s"," ","f"," ","="," ","0">>, <<"Q","M","a","p","<","A",","," ","B",">"," ","m">>, <<"T"," ","*"," ","p"," ","="," ","0">>, <<"T"," ","*","*","*"," ","p">>, <<"i","n","t"," ","="," ","5">>,
    <<"b","o","o","l"," ","b"," ","="," ","x"," ","=","="," ","y">>, <<"c","h","a","r"," ","c"," ","="," ","'","=","'">>, <<"i","n","t"," ","a"," ","="," ","b"," ","="," ","c">> }

Calls ==
  { [fn |-> "parse_type", shape |-> <<t>>, text |-> TypeText(t), row |-> <<>>,
     out |-> NoneVal] : t \in TypeShapes }
  \cup { [fn |-> "parse_type", shape |-> <<>>, text |-> s, row |-> <<>>,
          out |-> NoneVal] : s \in MarkerTexts \cup OddTexts }
  \cup { [fn |-> "parse_methods", shape |-> <<>>, text |-> <<>>, row |-> <<r, g, c>>,
          out |-> NoneVal] :
           r \in ReturnTypeTexts, g \in SignatureTexts, c \in ClassNames }
  \cup { [fn |-> "argument_list_template_dirty_fix", shape |-> <<>>, text |-> s,
          row |-> <<>>, out |-> NoneVal] : s \in ListTexts }
  \cup { [fn |-> "parse_argument", shape |-> <<>>, text |-> s, row |-> <<>>,
          out |-> NoneVal] : s \in ArgumentTexts }

CallInit ==
  /\ call \in Calls
  /\ corpus = <<>>
  /\ pc = "call"
  /\ idx = 1
  /\ headers_data = <<>>
  /\ types_data = EmptyDict
  /\ used_types = {}
  /\ fix = FixIdle
  /\ log = <<>>
  /\ error = NoneVal
  /\ passes = 0
  /\ first_pass = NoneVal
  /\ argument_typedefs = {}

\* Lines 82-116: parse_type(string) returns or raises.
ParseType ==
  /\ pc = "call"
  /\ call.fn = "parse_type"
  /\ call' = [call EXCEPT !.out = parse_type(call.text)]
  /\ pc' = "returned"
  /\ UNCHANGED << corpus, idx, headers_data, types_data, used_types, fix, log, error,
                  passes, first_pass, argument_typedefs >>

\* Lines 177-255: parse_methods(table, class_name, section_attrs,
\* nested_types) for a table of one row returns or raises.
ParseMethods ==
  /\ pc = "call"
  /\ call.fn = "parse_methods"
  /\ call' = [call EXCEPT
                !.out = parse_methods(<<Row(call.row[1], call.row[2])>>, call.row[3],
                                      EmptyDict)]
  /\ pc' = "returned"
  /\ UNCHANGED << corpus, idx, headers_data, types_data, used_types, fix, log, error,
                  passes, first_pass, argument_typedefs >>

\* Lines 119-138 and 213-214: argument_list_template_dirty_fix(s.split(','))
\* returns.
SplitArguments ==
  /\ pc = "call"
  /\ call.fn = "argument_list_template_dirty_fix"
  /\ call' = [call EXCEPT
                !.out = Ok(argument_list_template_dirty_fix(Split(call.text, <<",">>)))]
  /\ pc' = "returned"
  /\ UNCHANGED << corpus, idx, headers_data, types_data, used_types, fix, log, error,
                  passes, first_pass, argument_typedefs >>

\* Lines 141-161: parse_argument(string) returns or raises.
ParseArgument ==
  /\ pc = "call"
  /\ call.fn = "parse_argument"
  /\ call' = [call EXCEPT !.out = parse_argument(call.text)]
  /\ pc' = "returned"
  /\ UNCHANGED << corpus, idx, headers_data, types_data, used_types, fix, log, error,
                  passes, first_pass, argument_typedefs >>

CallNext ==
  \/ ParseType
  \/ ParseMethods
  \/ SplitArguments
  \/ ParseArgument

CallSpec == CallInit /\ [][CallNext]_vars

\* ------------------------------------------------- process(): C1

\* Lines 409, 424 and 452: the title of the page is read without a raise.
TitleParsed(soup) ==
  /\ soup.title # <<>>
  /\ IF StartsWith(soup.title[1], <<"<","Q","t">>) \/ soup.title[1] = <<"Q","t"," ","N","a","m","e","s","p","a","c","e">>
     THEN soup.title[1] = <<"Q","t"," ","N","a","m","e","s","p","a","c","e">> \/ Find(soup.title[1], <<">">>, 0) # 0
     ELSE /\ Len(Split(soup.title[1], <<" ">>)) = 2
          /\ Strip(Split(soup.title[1], <<" ">>)[2]) = <<"C","l","a","s","s">>

\* The files of the corpus that parse() reads and whose title is parsed.
TitledFiles ==
  { k \in 1..Len(corpus) :
      ~IsBlacklistedFile(corpus[k].basename) /\ TitleParsed(corpus[k]) }

\* C1: process() runs to completion whatever the corpus holds: no exception
\* leaves it, and once it has returned headers_data holds one header for every
\* document whose title was parsed.
C1_ProcessCompletes ==
  /\ pc # "raised"
  /\ pc = "done" => Len(headers_data) = Cardinality(TitledFiles)

\* ------------------------------------------------ parse_methods: C2

\* The descriptors of the rows of a table that parse, each row taken alone.
rows_alone(table, class_name, section_attrs) ==
  Values(SelectSeq([i \in 1..Len(table) |->
                      row_outcome(table[i], class_name, section_attrs)], IsOk))

section_alone(soup, class_name, id, attrs) ==
  IF FindSection(soup, id) = <<>> THEN <<>>
  ELSE rows_alone(FindSection(soup, id)[1], class_name, attrs)

\* The methods of a page when a row that fails takes nothing else with it.
methods_alone(soup) ==
  IF StartsWith(soup.title[1], <<"<","Q","t">>) \/ soup.title[1] = <<"Q","t"," ","N","a","m","e","s","p","a","c","e">>
  THEN section_alone(soup, <<>>, "Functions", EmptyDict)
  ELSE Flatten([i \in 1..Len(ClassSections) |->
                  section_alone(soup,
                                IF ClassSections[i].id = "related-non-members" THEN <<>>
                                ELSE <<Strip(Split(soup.title[1], <<" ">>)[1])>>,
                                ClassSections[i].id, ClassSections[i].attrs)])

IsRead(soup) == ~IsBlacklistedFile(soup.basename)

\* The files parse() has read so far, in order.
FilesRead == SelectSeq(SubSeq(corpus, 1, idx - 1), IsRead)

\* C2: a failure raised while one row of a table is parsed drops that row
\* only: while parse() runs, every file read so far has its header in
\* headers_data, with the methods of all its rows that parse.
C2_RowFailureDropsRowOnly ==
  pc = "parse" =>
    /\ Len(headers_data) = Len(FilesRead)
    /\ \A k \in 1..Len(FilesRead) :
         k <= Len(headers_data) => headers_data[k]["methods"] = methods_alone(FilesRead[k])

\* -------------------------------------------- fix_method_types: C3

\* C3: a walk that ends without a registered candidate is logged and the
\* resolver goes on: neither the NoTypeOriginException of line 798 nor the
\* lookup of line 789 leaves process().
C3_WalkEndIsLogged ==
  pc = "raised" => ~(error.exc \in {"NoTypeOriginException", "KeyError"}
                     /\ error.line \in {789, 798})

\* ------------------------------------------- fix_nested_types: C4

\* A pass of the loop of fix_nested_types is about to run.
Walking == pc = "fix_method_types" /\ fix.m >= 0 /\ fix.slots # <<>>

\* The base name the pass searches, and the scope it searches from: the class
\* of the header when the walk starts, the class switched to afterwards.
WalkBase == AliasBase(SlotBase(headers_data[fix.h], fix.m, Head(fix.slots)))

WalkScope ==
  IF fix.walk # <<>> THEN fix.walk[1].ns
  ELSE IF HasKey(headers_data[fix.h], "class") THEN <<headers_data[fix.h]["class"]>>
  ELSE <<>>

\* P1, ..., Pk of a scope P1::...::Pk, and the candidate P1::...::Pj::N.
ScopeParts(scope) == IF scope = <<>> THEN <<>> ELSE Split(scope[1], <<":",":">>)

Scoped(scope, j, N) == Join(<<":",":">>, Append(SubSeq(ScopeParts(scope), 1, j), N))

\* The most specific candidate of N in a scope that is a key of the registry
\* is the one with j parts of the scope.
MostSpecificAt(scope, j, N) ==
  /\ Scoped(scope, j, N) \in DOMAIN types_data
  /\ \A i \in (j + 1)..Len(ScopeParts(scope)) : Scoped(scope, i, N) \notin DOMAIN types_data

\* The pass rewrites the base and the walk of the type ends.
Resolves == Walking /\ fix'.slots = Tail(fix.slots) /\ log' = log /\ pc' = pc

\* C4: a pass that resolves a base name N in the scope P1::...::Pk rewrites
\* the base to the most specific candidate P1::...::Pj::N that is a key of the
\* registry, and adds that candidate to used_types.
C4_MostSpecificCandidateWins ==
  [][Resolves =>
       /\ \E j \in 0..Len(ScopeParts(WalkScope)) :
            /\ SlotBase(headers_data'[fix.h], fix.m, Head(fix.slots))
                 = Scoped(WalkScope, j, WalkBase)
            /\ MostSpecificAt(WalkScope, j, WalkBase)
       /\ SlotBase(headers_data'[fix.h], fix.m, Head(fix.slots)) \in used_types']_vars

\* In the class X::X the return type Kind has become X::X::Kind although
\* X::Kind is a key of the registry too, and the argument type Mode has become
\* X::Mode, the only candidate that is a key.
C4_Witness ==
  /\ pc = "fix_returned"
  /\ {<<"X",":",":","K","i","n","d">>, <<"X",":",":","X",":",":","K","i","n","d">>, <<"X",":",":","M","o","d","e">>} \subseteq DOMAIN types_data
  /\ <<"X",":",":","X",":",":","M","o","d","e">> \notin DOMAIN types_data
  /\ {<<"X",":",":","X",":",":","K","i","n","d">>, <<"X",":",":","M","o","d","e">>} \subseteq used_types
  /\ \E h \in 1..Len(headers_data) :
       /\ HasKey(headers_data[h], "class")
       /\ headers_data[h]["class"] = <<"X",":",":","X">>
       /\ headers_data[h]["methods"][1]["return_type"]["base"] = <<"X",":",":","X",":",":","K","i","n","d">>
       /\ headers_data[h]["methods"][2]["arguments"][1]["type"]["base"] = <<"X",":",":","M","o","d","e">>

\* ------------------------------------------- fix_nested_types: C5

\* No candidate of N in the scope is a key of the registry.
NoCandidate(scope, N) ==
  \A j \in 0..Len(ScopeParts(scope)) : Scoped(scope, j, N) \notin DOMAIN types_data

\* The scope is a class of the registry that has an inherits relation.
HasBaseClass(scope) ==
  /\ scope # <<>>
  /\ scope[1] \in DOMAIN types_data
  /\ HasKey(types_data[scope[1]], "inherits")

\* The base class of such a scope.
BaseClass(scope) ==
  <<headers_data[types_data[scope[1]]["inherits"].ref]["inherits"]["base"]>>

\* The class k steps up the inheritance chain of a scope; <<>> past its end.
RECURSIVE Ancestor(_, _)
Ancestor(scope, k) ==
  IF k = 0 THEN scope
  ELSE IF HasBaseClass(Ancestor(scope, k - 1)) THEN BaseClass(Ancestor(scope, k - 1))
  ELSE <<>>

\* The class of the header the resolver is in.
DeclaringScope ==
  IF HasKey(headers_data[fix.h], "class") THEN <<headers_data[fix.h]["class"]>> ELSE <<>>

\* C5: a pass that finds no candidate in a scope that has a base class
\* switches the scope to the base class and goes on with the same type; and a
\* base is rewritten to the candidate of the nearest class on the inheritance
\* chain of the declaring class that has one.
C5_InheritanceFallback ==
  [][/\ (Walking /\ NoCandidate(WalkScope, WalkBase) /\ HasBaseClass(WalkScope))
          => /\ fix'.walk # <<>>
             /\ fix'.walk[1].ns = BaseClass(WalkScope)
             /\ fix'.slots = fix.slots
             /\ pc' = pc
     /\ Resolves
          => \E k \in 0..Len(headers_data) :
               /\ Ancestor(DeclaringScope, k) = WalkScope
               /\ \A i \in 0..(k - 1) :
                    /\ NoCandidate(Ancestor(DeclaringScope, i), WalkBase)
                    /\ HasBaseClass(Ancestor(DeclaringScope, i))
               /\ \E j \in 0..Len(ScopeParts(WalkScope)) :
                    SlotBase(headers_data'[fix.h], fix.m, Head(fix.slots))
                      = Scoped(WalkScope, j, WalkBase)]_vars

\* In QTimerEvent, which inherits QEvent, the argument type Type has become
\* QEvent::Type; in QDeepEvent, which inherits QTimerEvent, the template
\* argument Type has become QEvent::Type too.  Neither class has a Type of its
\* own and no bare Type is a key.
C5_Witness ==
  /\ pc = "fix_returned"
  /\ <<"Q","E","v","e","n","t",":",":","T","y","p","e">> \in DOMAIN types_data
  /\ {<<"T","y","p","e">>, <<"Q","T","i","m","e","r","E","v","e","n","t",":",":","T","y","p","e">>, <<"Q","D","e","e","p","E","v","e","n","t",":",":","T","y","p","e">>} \cap DOMAIN types_data = {}
  /\ \E h \in 1..Len(headers_data) :
       /\ HasKey(headers_data[h], "class")
       /\ headers_data[h]["class"] = <<"Q","T","i","m","e","r","E","v","e","n","t">>
       /\ headers_data[h]["methods"][2]["arguments"][1]["type"]["base"] = <<"Q","E","v","e","n","t",":",":","T","y","p","e">>
  /\ \E h \in 1..Len(headers_data) :
       /\ HasKey(headers_data[h], "class")
       /\ headers_data[h]["class"] = <<"Q","D","e","e","p","E","v","e","n","t">>
       /\ headers_data[h]["methods"][1]["return_type"]["template_arguments"][1]["base"]
            = <<"Q","E","v","e","n","t",":",":","T","y","p","e">>

\* ------------------------------------------- fix_nested_types: C6

\* C6: once the walk of a type has switched scope, it ends: the type is
\* resolved or the walk is exhausted (the exception of line 798 or of line 789
\* is raised, caught or not).
C6_WalkEnds ==
  (Walking /\ fix.walk # <<>>) ~> (fix.walk = <<>> \/ pc = "raised")

\* -------------------------------------------- fix_method_types: C7

\* C7: a second call of fix_method_types changes nothing: when it returns,
\* headers_data (every base of every return type, argument type and inherits
\* type) and the keys of the registry are what the first call left.
C7_SecondPassChangesNothing ==
  passes = 2 =>
    /\ headers_data = first_pass.headers_data
    /\ DOMAIN types_data = first_pass.keys

\* -------------------------------------------- fix_method_types: C8

\* C8: when process() has returned, every typedef of the registry is a name
\* the resolver rewrote some base to; and what the pruning step removes from
\* the registry is typedefs only.
C8_OnlyUnusedTypedefsPruned ==
  /\ [](pc = "done" => TypedefNames(types_data) \subseteq used_types)
  /\ [][pc = "fix_method_types" /\ pc' = "fix_returned"
          => (DOMAIN types_data \ DOMAIN types_data') \subseteq TypedefNames(types_data)]_vars

\* process() has returned; the typedef Mode, which no type names, was removed
\* by the pruning step, the typedef qint8 and the enum QEvent::Type are kept.
C8_Witness ==
  /\ pc = "done"
  /\ \E k \in 1..Len(log) : log[k].line = 827 /\ <<"M","o","d","e">> \in log[k].what
  /\ <<"M","o","d","e">> \notin DOMAIN types_data
  /\ <<"q","i","n","t","8">> \in TypedefNames(types_data)
  /\ <<"Q","E","v","e","n","t",":",":","T","y","p","e">> \in DOMAIN types_data

\* ---------------------------------------------- add_typedef_data: C9

\* The names of the fixed list of add_typedef_data.
IsWellKnown(name) == \E k \in 1..Len(WellKnownTypedefs) : WellKnownTypedefs[k].name = name

\* Lines 674-676: the names add_typedef_data removes whatever their use.
IteratorNamed(name) ==
  \/ EndsWith(name, <<":",":","C","o","n","s","t","I","t","e","r","a","t","o","r">>)
  \/ EndsWith(name, <<":",":","I","t","e","r","a","t","o","r">>)
  \/ EndsWith(name, <<":",":","i","t","e","r","a","t","o","r","_","c","a","t","e","g","o","r","y">>)

\* The typedef is a key of the registry, with a meaning when it is well known.
Kept(name) ==
  /\ name \in DOMAIN types_data
  /\ IsWellKnown(name) => HasKey(types_data[name], "meaning")

\* C9 as stated: when process() has returned, every typedef that became the
\* base of an argument type is a key of the registry, whatever its name, and
\* has a meaning when its name is well known.
C9_UsedTypedefsKept ==
  pc = "done" => \A name \in argument_typedefs : Kept(name)

\* C9, amended: the same for every such typedef whose name does not end in
\* ::ConstIterator, ::Iterator or ::iterator_category.
C9_UsedTypedefsKeptButIterators ==
  pc = "done" => \A name \in argument_typedefs : ~IteratorNamed(name) => Kept(name)

\* process() has returned: qint8, the type of an argument, is kept with its
\* meaning; QList::Iterator, the type of an argument too, is no key any more.
C9_Witness ==
  /\ pc = "done"
  /\ {<<"q","i","n","t","8">>, <<"Q","L","i","s","t",":",":","I","t","e","r","a","t","o","r">>} \subseteq argument_typedefs
  /\ <<"q","i","n","t","8">> \in DOMAIN types_data
  /\ HasKey(types_data[<<"q","i","n","t","8">>], "meaning")
  /\ <<"Q","L","i","s","t",":",":","I","t","e","r","a","t","o","r">> \notin DOMAIN types_data

\* --------------------------------------------- add_typedef_data: C10

\* C10: a well-known typedef that cannot be given its meaning is logged and
\* left without one: no exception of add_meaning (lines 657, 664, 667) leaves
\* process().
C10_MeaningFailureIsLogged ==
  pc = "raised" => ~(error.exc = "ParseException" /\ error.line \in {657, 664, 667})

\* --------------------------------------------- add_typedef_data: C11

\* The base of a type and of every template argument nested in it.
RECURSIVE TypeBases(_)
TypeBases(t) ==
  {t["base"]} \cup
  (IF HasKey(t, "template_arguments")
   THEN UNION { TypeBases(t["template_arguments"][i]) :
                  i \in 1..Len(t["template_arguments"]) }
   ELSE {})

\* C11: in every state, each registry entry that has a meaning has the base
\* of the meaning, and the base of every template argument nested in it, among
\* the keys of the registry.
C11_MeaningBasesAreKeys ==
  \A name \in DOMAIN types_data :
    HasKey(types_data[name], "meaning") =>
      TypeBases(types_data[name]["meaning"]) \subseteq DOMAIN types_data

\* process() has returned and QObjectList carries the meaning QList<QObject>:
\* a base and a template argument, both keys.
C11_Witness ==
  /\ pc = "done"
  /\ <<"Q","O","b","j","e","c","t","L","i","s","t">> \in DOMAIN types_data
  /\ HasKey(types_data[<<"Q","O","b","j","e","c","t","L","i","s","t">>], "meaning")
  /\ TypeBases(types_data[<<"Q","O","b","j","e","c","t","L","i","s","t">>]["meaning"]) = {<<"Q","L","i","s","t">>, <<"Q","O","b","j","e","c","t">>}

\* ----------------------------------------------------- process: C12

\* The resolver has started.
ResolverStarted == pc \in {"fix_method_types", "fix_returned", "add_typedef_data", "done"}

\* Every builtin name and the class of every header is a key of the registry,
\* and no header still holds types to register.
AllRegistered ==
  /\ \A g \in 1..Len(KnownTypes) : \A i \in 1..Len(KnownTypes[g].names) :
        KnownTypes[g].names[i] \in DOMAIN types_data
  /\ \A h \in 1..Len(headers_data) :
        /\ HasKey(headers_data[h], "class") => headers_data[h]["class"] \in DOMAIN types_data
        /\ ~HasKey(headers_data[h], "nested_types")
        /\ ~HasKey(headers_data[h], "not_nested_types")

\* The step creates no key and replaces no entry: a key that goes was a
\* typedef, and an entry that changes has gained a meaning and nothing else.
OnlyPrunesOrAddsMeaning ==
  /\ DOMAIN types_data' \subseteq DOMAIN types_data
  /\ (DOMAIN types_data \ DOMAIN types_data') \subseteq TypedefNames(types_data)
  /\ \A name \in DOMAIN types_data' \cap DOMAIN types_data :
        \/ types_data'[name] = types_data[name]
        \/ /\ ~HasKey(types_data[name], "meaning")
           /\ HasKey(types_data'[name], "meaning")
           /\ Drop(types_data'[name], "meaning") = types_data[name]

\* C12: the resolver starts when every document is parsed and every type is
\* registered, the typedef meaning step follows the resolver and is the last;
\* once the resolver has started, a step creates no registry key and replaces
\* no entry: it deletes typedef entries or adds a meaning to an entry.
C12_PhaseOrder ==
  [][ /\ (pc = "parse" /\ pc' # "parse" /\ pc' # "raised" =>
            idx > Len(corpus) /\ pc' = "add_qt_types")
      /\ (pc # "fix_method_types" /\ pc' = "fix_method_types" =>
            pc = "add_qt_types" /\ idx > Len(headers_data) /\ AllRegistered)
      /\ (pc # "add_typedef_data" /\ pc' = "add_typedef_data" => pc = "fix_returned")
      /\ (pc = "add_typedef_data" => pc' \in {"add_typedef_data", "done", "raised"})
      /\ (ResolverStarted => OnlyPrunesOrAddsMeaning) ]_vars

\* ------------------------------------------------ add_qt_types: C13

\* Lines 619-623: the registration of the class of header h, if it has one.
ClassRegistration(hd, h) ==
  IF ~HasKey(hd[h], "class") THEN <<>>
  ELSE << [name |-> hd[h]["class"],
           type_data |->
             LET t0 == [kind |-> <<"c","l","a","s","s">>, origin |-> "qt",
                        qt_header |-> hd[h]["include_file"]]
             IN IF HasInherits(hd[h]) THEN Put(t0, "inherits", [ref |-> h]) ELSE t0] >>

\* Lines 627-635: the registrations of the nested types of a header.
NestedRegistrations(header_data) ==
  IF ~HasKey(header_data, "nested_types") THEN <<>>
  ELSE [i \in 1..Len(header_data["nested_types"]) |->
          LET t  == header_data["nested_types"][i]
              ns == IF HasKey(header_data, "nested_types_namespace")
                    THEN header_data["nested_types_namespace"] \o <<":",":">> ELSE <<>>
              d  == (("origin" :> "qt") @@ ("qt_header" :> header_data["include_file"])
                     @@ Drop(t, "name"))
          IN [name |-> ns \o t["name"],
              type_data |-> IF HasKey(d, "enum") THEN Put(d, "enum", ns \o d["enum"]) ELSE d]]

\* Lines 642-646: the registrations of the types of a header that are not
\* nested.
NotNestedRegistrations(header_data) ==
  IF ~HasKey(header_data, "not_nested_types") THEN <<>>
  ELSE [i \in 1..Len(header_data["not_nested_types"]) |->
          LET t == header_data["not_nested_types"][i]
          IN [name |-> t["name"],
              type_data |-> (("origin" :> "qt")
                             @@ ("qt_header" :> header_data["include_file"])
                             @@ Drop(t, "name"))]]

\* The registrations add_qt_types makes for header h, in order.
Registrations(hd, h) ==
  ClassRegistration(hd, h) \o NestedRegistrations(hd[h]) \o NotNestedRegistrations(hd[h])

\* The registrations of known_basic_types, in order.
KnownRegistrations ==
  Flatten([g \in 1..Len(KnownTypes) |->
             [i \in 1..Len(KnownTypes[g].names) |->
                [name |-> KnownTypes[g].names[i],
                 type_data |-> [origin |-> KnownTypes[g].origin]]]])

RegisteredNames(regs) == { regs[i].name : i \in 1..Len(regs) }

\* What the last registration of a name stores.
LastRegistered(regs, name) ==
  regs[LastIndex({ i \in 1..Len(regs) : regs[i].name = name })].type_data

\* The registrations under a name that is a key already when they are made.
Collisions(td, regs) ==
  { i \in 1..Len(regs) :
      regs[i].name \in DOMAIN td \/ \E j \in 1..(i - 1) : regs[j].name = regs[i].name }

\* A step that makes the registrations regs stores every one of them, the
\* last of a name over the earlier ones, and logs one warning for each
\* registration under a name that was a key.
LastWriteWins(regs) ==
  /\ DOMAIN types_data' = DOMAIN types_data \cup RegisteredNames(regs)
  /\ \A name \in DOMAIN types_data' :
        types_data'[name] = IF name \in RegisteredNames(regs)
                            THEN LastRegistered(regs, name) ELSE types_data[name]
  /\ Len(log') = Len(log) + Cardinality(Collisions(types_data, regs))

\* C13: every registration of a builtin, a class, a nested type or a type that
\* is not nested is stored under its name, over the entry that was there, with
\* a warning for each entry replaced; none is skipped.
C13_RegistryLastWriteWins ==
  [][ /\ (pc = "parse" /\ pc' = "add_qt_types" => LastWriteWins(KnownRegistrations))
      /\ (pc = "add_qt_types" /\ idx <= Len(headers_data) =>
            LastWriteWins(Registrations(headers_data, idx))) ]_vars

\* ------------------------------------------------------------- C14

\* The descriptors a returned call of parse_methods gave.
Descriptors ==
  IF pc = "returned" /\ call.fn = "parse_methods" /\ IsOk(call.out)
  THEN call.out.val.result ELSE <<>>

HasMarker(d) ==
  HasKey(d, "operator") \/ HasKey(d, "constructor") \/ HasKey(d, "destructor")

\* C14 as stated: every descriptor parse_methods returns with scope class and
\* none of the markers operator, constructor, destructor has a return_type,
\* the descriptors of variable rows included.
C14_AllClassDescriptorsHaveReturnType ==
  \A i \in 1..Len(Descriptors) :
    Descriptors[i]["scope"] = "class" /\ ~HasMarker(Descriptors[i])
      => HasKey(Descriptors[i], "return_type")

\* C14: every descriptor parse_methods returns with scope class, without the
\* markers operator, constructor, destructor and without the variable marker
\* has a return_type; a variable descriptor has a type and no return_type.
C14_ClassMethodsHaveReturnType ==
  \A i \in 1..Len(Descriptors) :
    /\ Descriptors[i]["scope"] = "class" /\ ~HasMarker(Descriptors[i])
       /\ ~HasKey(Descriptors[i], "variable")
         => HasKey(Descriptors[i], "return_type")
    /\ HasKey(Descriptors[i], "variable")
         => HasKey(Descriptors[i], "type") /\ ~HasKey(Descriptors[i], "return_type")

\* A method of class Foo is returned with its return type.
C14_Witness ==
  /\ call.fn = "parse_methods"
  /\ call.row = << <<"i","n","t">>, <<"b","a","r","(","i","n","t"," ","a",")"," ","c","o","n","s","t">>, <<<<"F","o","o">>>> >>
  /\ Len(Descriptors) = 1
  /\ Descriptors[1]["scope"] = "class"
  /\ ~HasMarker(Descriptors[1])
  /\ Descriptors[1]["return_type"] = [base |-> <<"i","n","t">>]

\* ------------------------------------------------------------- C15

\* The name of a row that is not a bare identifier (line 209).
RowName(signature_string) ==
  Strip(PySlice(signature_string, 0, name_end_index_of(signature_string)))

\* A callable row named as the class or as its destructor, with a return type
\* after "virtual" is cut.
NamedAsClassWithReturnType(row) ==
  /\ Truthy(row[3])
  /\ ~IsWord(row[2])
  /\ RowName(row[2]) \in { row[3][1], <<"~">> \o row[3][1] }
  /\ cut_virtual(row[1]) # <<>>

\* C15: in class scope a callable row named as the class is returned with the
\* constructor marker and one named '~' + class with the destructor marker,
\* and only these are; a descriptor with either marker has no return type; a
\* row named as the class or its destructor that has a return type gives no
\* descriptor; without a class name no descriptor has either marker.
C15_ConstructorDestructorMarkers ==
  pc = "returned" /\ call.fn = "parse_methods" =>
    /\ \A i \in 1..Len(Descriptors) :
         /\ Truthy(call.row[3]) /\ ~HasKey(Descriptors[i], "variable") =>
              /\ HasKey(Descriptors[i], "constructor")
                   <=> Descriptors[i]["name"] = call.row[3][1]
              /\ HasKey(Descriptors[i], "destructor")
                   <=> Descriptors[i]["name"] = <<"~">> \o call.row[3][1]
         /\ HasKey(Descriptors[i], "constructor") \/ HasKey(Descriptors[i], "destructor") =>
              /\ ~HasKey(Descriptors[i], "return_type")
              /\ Truthy(call.row[3])
              /\ ~HasKey(Descriptors[i], "variable")
    /\ NamedAsClassWithReturnType(call.row) => Descriptors = <<>>

\* The constructor Foo(int x) of class Foo is returned with the marker.
C15_Witness ==
  /\ call.fn = "parse_methods"
  /\ call.row = << <<>>, <<"F","o","o","(","i","n","t"," ","x",")">>, <<<<"F","o","o">>>> >>
  /\ Len(Descriptors) = 1
  /\ HasKey(Descriptors[1], "constructor")
  /\ ~HasKey(Descriptors[1], "return_type")
  /\ Descriptors[1]["name"] = <<"F","o","o">>

\* ------------------------------------------------------------- C16

\* The TypeRef a shape stands for.
RECURSIVE TypeOf(_)
TypeOf(t) ==
  Put((IF t.const THEN [is_const |-> TRUE] ELSE EmptyDict)
      @@ (IF t.suffix # <<>> THEN [indirection |-> t.suffix] ELSE EmptyDict)
      @@ (IF t.args # <<>>
          THEN [template_arguments |->
                  [i \in 1..Len(t.args[1]) |-> TypeOf(t.args[1][i])]]
          ELSE EmptyDict),
      "base", t.name)

\* C16: for a type text of the shape [const ]Name[<A1, ..., An>][suffix]
\* parse_type returns base Name, is_const exactly with the "const " prefix,
\* the suffix as indirection and the results of A1..An in order as
\* template_arguments; "const Foo::Bar<int, T> &" gives base Foo::Bar, const,
\* reference and the template arguments int and T.
C16_ShapeIsParsed ==
  pc = "returned" /\ call.fn = "parse_type" =>
    /\ call.shape # <<>> => call.out = Ok(TypeOf(call.shape[1]))
    /\ call.text = <<"c","o","n","s","t"," ","F","o","o",":",":","B","a","r","<","i","n","t",","," ","T",">"," ","&">> =>
         call.out = Ok([base |-> <<"F","o","o",":",":","B","a","r">>, is_const |-> TRUE, indirection |-> <<"&">>,
                        template_arguments |-> << [base |-> <<"i","n","t">>], [base |-> <<"T">>] >>])

\* "const Foo::Bar<int, T> &" is parsed.
C16_Witness ==
  /\ pc = "returned"
  /\ call.fn = "parse_type"
  /\ call.shape # <<>>
  /\ call.text = <<"c","o","n","s","t"," ","F","o","o",":",":","B","a","r","<","i","n","t",","," ","T",">"," ","&">>
  /\ IsOk(call.out)
  /\ call.out.val["template_arguments"] = << [base |-> <<"i","n","t">>], [base |-> <<"T">>] >>

\* ------------------------------------------------------------- C17

\* The suffixes of the list s ends with.
SuffixesOf(s) == { x \in { <<"&","&">>, <<"*","*">>, <<"*","&">>, <<"&">>, <<"*">> } : EndsWith(s, x) }

\* The longest of them; SuffixesOf(s) is not empty.
LongestSuffix(s) ==
  CHOOSE x \in SuffixesOf(s) : \A y \in SuffixesOf(s) : Len(y) <= Len(x)

IsNotSpace(c) == c # " "

\* The result of parse_type for a name with one indirection.
Indirect(name, suffix) == Ok([base |-> name, indirection |-> suffix])

\* C17: a successful parse_type records the longest of '&&', '**', '*&', '&',
\* '*' the stripped text ends with, and no indirection when it ends with
\* none; of a name followed by markers and spaces it strips that suffix only,
\* the name being the base; "int*", "int&", "int&&" and "int**" succeed with
\* base int and four different indirections.
C17_LongestSuffixRecorded ==
  pc = "returned" /\ call.fn = "parse_type" =>
    /\ IsOk(call.out) =>
         /\ HasKey(call.out.val, "indirection") <=> SuffixesOf(Strip(call.text)) # {}
         /\ HasKey(call.out.val, "indirection") =>
              call.out.val["indirection"] = LongestSuffix(Strip(call.text))
         /\ call.text \in MarkerTexts =>
              /\ call.out.val["base"] = <<"i","n","t">>
              /\ SelectSeq(call.text, IsNotSpace)
                   = <<"i","n","t">> \o (IF HasKey(call.out.val, "indirection")
                                THEN call.out.val["indirection"] ELSE <<>>)
    /\ call.text = <<"i","n","t","*">> => call.out = Indirect(<<"i","n","t">>, <<"*">>)
    /\ call.text = <<"i","n","t","&">> => call.out = Indirect(<<"i","n","t">>, <<"&">>)
    /\ call.text = <<"i","n","t","&","&">> => call.out = Indirect(<<"i","n","t">>, <<"&","&">>)
    /\ call.text = <<"i","n","t","*","*">> => call.out = Indirect(<<"i","n","t">>, <<"*","*">>)
    /\ \A s, t \in { <<"i","n","t","*">>, <<"i","n","t","&">>, <<"i","n","t","&","&">>, <<"i","n","t","*","*">> } :
         s # t => /\ IsOk(parse_type(s)) /\ IsOk(parse_type(t))
                  /\ parse_type(s).val["indirection"] # parse_type(t).val["indirection"]

\* "int**" is parsed: of the suffixes '**' and '*' it ends with, '**' is
\* recorded.
C17_Witness ==
  /\ pc = "returned"
  /\ call.fn = "parse_type"
  /\ call.text = <<"i","n","t","*","*">>
  /\ SuffixesOf(call.text) = { <<"*","*">>, <<"*">> }
  /\ call.out = Indirect(<<"i","n","t">>, <<"*","*">>)

\* ------------------------------------------------------------- C18

IsMarker(c) == c \in { "*", "&" }

\* The number of '*' and '&' characters of a text.
Markers(s) == Len(SelectSeq(s, IsMarker))

TooMuchIndirection == Raise("TypeParseException", 111)

\* C18: of the texts made of the name int followed by '*', '&' and spaces,
\* those with at most two markers are parsed, and those with three or more
\* fail with TooMuchIndirection.
C18_TooMuchIndirectionFromThreeMarkers ==
  pc = "returned" /\ call.fn = "parse_type" /\ call.text \in MarkerTexts =>
    /\ Markers(call.text) <= 2 => IsOk(call.out)
    /\ Markers(call.text) >= 3 => call.out = TooMuchIndirection

\* ------------------------------------------------------------- C19

\* C19: the base of a TypeRef parse_type returns, and the base of every
\* TypeRef in its template_arguments at any depth, has no '*' and no '&'.
C19_NoMarkerInBase ==
  pc = "returned" /\ call.fn = "parse_type" /\ IsOk(call.out) =>
    \A base \in TypeBases(call.out.val) : Markers(base) = 0

\* "Foo::Bar<QPair<int, T>, Key*> *&" is parsed: the markers of the text are
\* in none of its five bases.
C19_Witness ==
  /\ pc = "returned"
  /\ call.fn = "parse_type"
  /\ call.text = <<"F","o","o",":",":","B","a","r","<","Q","P","a","i","r","<","i","n","t",","," ","T",">",","," ","K","e","y","*",">"," ","*","&">>
  /\ Markers(call.text) = 3
  /\ IsOk(call.out)
  /\ TypeBases(call.out.val) = { <<"F","o","o",":",":","B","a","r">>, <<"Q","P","a","i","r">>, <<"i","n","t">>, <<"T">>, <<"K","e","y">> }

\* ------------------------------------------------------------- C20

\* A bare identifier, or identifiers separated by '::', none of them the
\* keyword const.
IsQualifiedIdentifier(s) ==
  \A i \in 1..Len(Split(s, <<":",":">>)) :
    IsWord(Split(s, <<":",":">>)[i]) /\ Split(s, <<":",":">>)[i] # <<"c","o","n","s","t">>

\* C20: the base parse_type returns is a bare identifier or a '::'-qualified
\* identifier: it has no space, no '<' or '>', no comma and no const keyword.
C20_BaseIsQualifiedIdentifier ==
  pc = "returned" /\ call.fn = "parse_type" /\ IsOk(call.out) =>
    /\ IsQualifiedIdentifier(call.out.val["base"])
    /\ \A i \in 1..Len(call.out.val["base"]) :
         call.out.val["base"][i] \notin { " ", "<", ">", "," }

\* ------------------------------------------------------------- C21

\* The fragments a returned call of the splitter gave.
Fragments ==
  IF pc = "returned" /\ call.fn = "argument_list_template_dirty_fix"
  THEN call.out.val ELSE <<>>

\* The number of '<' less the number of '>' in s[j..k].
Excess(s, j, k) == Count(SubSeq(s, j, k), "<") - Count(SubSeq(s, j, k), ">")

\* The '>' at k closes the '<' at j.
Closes(s, j, k) ==
  /\ s[j] = "<" /\ s[k] = ">" /\ j < k
  /\ Excess(s, j, k) = 0
  /\ \A m \in j..(k - 1) : Excess(s, j, m) > 0

\* The character at i is inside a '<...>'.
Nested(s, i) ==
  \E j \in 1..(i - 1) : \E k \in (i + 1)..Len(s) : Closes(s, j, k)

\* The positions of the commas of s that are inside no '<...>'.
TopLevelCommas(s) == { i \in 1..Len(s) : s[i] = "," /\ ~Nested(s, i) }

\* The k-th smallest member of a set of numbers.
Nth(S, k) == CHOOSE x \in S : Cardinality({ y \in S : y < x }) = k - 1

\* The texts between the top-level commas of s, in order.
TopLevelItems(s) ==
  [k \in 1..(Cardinality(TopLevelCommas(s)) + 1) |->
     SubSeq(s,
            IF k = 1 THEN 1 ELSE Nth(TopLevelCommas(s), k - 1) + 1,
            IF k = Cardinality(TopLevelCommas(s)) + 1 THEN Len(s)
            ELSE Nth(TopLevelCommas(s), k) - 1)]

Unspaced(s) == SelectSeq(s, IsNotSpace)

\* Every '<' of s has its '>' and every '>' its '<'.
WellNested(s) ==
  \A i \in 1..Len(s) :
    /\ s[i] = "<" => \E k \in (i + 1)..Len(s) : Closes(s, i, k)
    /\ s[i] = ">" => \E j \in 1..(i - 1) : Closes(s, j, i)

\* C21: the fragments the splitter returns are the top-level items of the
\* list, one fragment per item and in order (spaces apart): a comma inside a
\* '<...>' separates no two fragments and every other comma does;
\* "QMap<A,B> a, int b" gives two fragments and "QPair<qreal, QVariant>" one.
C21_OneFragmentPerTopLevelItem ==
  pc = "returned" /\ call.fn = "argument_list_template_dirty_fix" =>
    /\ Len(Fragments) = Len(TopLevelItems(call.text))
    /\ \A k \in 1..Len(Fragments) :
         Unspaced(Fragments[k]) = Unspaced(TopLevelItems(call.text)[k])
    /\ call.text = <<"Q","M","a","p","<","A",",","B",">"," ","a",","," ","i","n","t"," ","b">> => Len(Fragments) = 2
    /\ call.text = <<"Q","P","a","i","r","<","q","r","e","a","l",","," ","Q","V","a","r","i","a","n","t",">">> => Len(Fragments) = 1

\* ------------------------------------------------------------- C22

\* C22: the fragments the splitter returns for s.split(','), joined with
\* ', ', are s once the spaces of both are removed.
C22_SplitRoundTrip ==
  pc = "returned" /\ call.fn = "argument_list_template_dirty_fix" =>
    Unspaced(Join(<<","," ">>, Fragments)) = Unspaced(call.text)

\* "QMap<A,B> a, int b": the two fragments of the first argument were merged,
\* and the join gives the list back.
C22_Witness ==
  /\ pc = "returned"
  /\ call.fn = "argument_list_template_dirty_fix"
  /\ call.text = <<"Q","M","a","p","<","A",",","B",">"," ","a",","," ","i","n","t"," ","b">>
  /\ Fragments = << <<"Q","M","a","p","<","A",","," ","B",">"," ","a">>, <<" ","i","n","t"," ","b">> >>
  /\ Join(<<","," ">>, Fragments) = <<"Q","M","a","p","<","A",","," ","B",">"," ","a",","," "," ","i","n","t"," ","b">>

\* ------------------------------------------------------------- C23

Balanced(s) == Count(s, "<") = Count(s, ">")

\* C23 as stated: every fragment the splitter returns has as many '<' as '>'.
C23_AllFragmentsBalanced ==
  \A k \in 1..Len(Fragments) : Balanced(Fragments[k])

\* C23: every fragment the splitter returns but the last has as many '<' as
\* '>', and the last has when the whole list has.
C23_AllButLastBalanced ==
  pc = "returned" /\ call.fn = "argument_list_template_dirty_fix" =>
    /\ \A k \in 1..(Len(Fragments) - 1) : Balanced(Fragments[k])
    /\ Balanced(Fragments[Len(Fragments)]) <=> Balanced(call.text)

\* "<,>,<": the first fragment was merged with the second, and the last has
\* no right neighbour to be merged with.
C23_Witness ==
  /\ pc = "returned"
  /\ call.fn = "argument_list_template_dirty_fix"
  /\ call.text = <<"<",",",">",",","<">>
  /\ Fragments = << <<"<",","," ",">">>, <<"<">> >>

\* ------------------------------------------------------------- C24

\* The position of the last '=' of s, or 0.
LastEquals(s) ==
  IF Count(s, "=") = 0 THEN 0
  ELSE CHOOSE i \in 1..Len(s) : s[i] = "=" /\ \A j \in (i + 1)..Len(s) : s[j] # "="

\* The text before the last '=' (all of s without one) and the text after it.
BeforeDefault(s) ==
  Strip(IF LastEquals(s) = 0 THEN s ELSE SubSeq(s, 1, LastEquals(s) - 1))

AfterLastEquals(s) == Strip(SubSeq(s, LastEquals(s) + 1, Len(s)))

\* The trailing identifier run of the text before the default value.
TrailingName(s) == SuffixIn(BeforeDefault(s), WordChars)

\* The argument of a text split on its last '=': type is the outcome of
\* parse_type for the text before the name.
SplitOnLastEquals(s, type) ==
  IF ~IsOk(type) THEN type
  ELSE Ok((IF LastEquals(s) = 0 THEN EmptyDict
           ELSE [default_value |-> AfterLastEquals(s)])
          @@ [name |-> TrailingName(s), type |-> type.val])

\* C24: parse_argument of a bare "int" or "bool" gives an argument named
\* value; of any other text it gives the text after the last '=' as default
\* value, the trailing identifier run of the text before it as name, and the
\* result of parse_type for what precedes the name as type.
C24_SplitOnLastEquals ==
  pc = "returned" /\ call.fn = "parse_argument" =>
    /\ call.text \in { <<"i","n","t">>, <<"b","o","o","l">> } =>
         call.out = Ok([type |-> [base |-> call.text], name |-> <<"v","a","l","u","e">>])
    /\ call.text \notin { <<"i","n","t">>, <<"b","o","o","l">> } /\ TrailingName(call.text) # <<>> =>
         call.out = SplitOnLastEquals(
                      call.text,
                      parse_type(SubSeq(BeforeDefault(call.text), 1,
                                        Len(BeforeDefault(call.text))
                                        - Len(TrailingName(call.text)))))

\* ------------------------------------------------------------- C25

\* The text after the last ')' of a signature.
AfterParenthesis(signature_string) ==
  SubSeq(signature_string, RFind(signature_string, <<")">>) + 2, Len(signature_string))

\* The flags of a descriptor: pure_virtual and is_const.
SuffixFlags(d) == << HasKey(d, "pure_virtual"), HasKey(d, "is_const") >>

\* C25: a descriptor of a row whose signature ends, after the closing
\* parenthesis, with ' const = 0' has pure_virtual and is_const, with ' const'
\* is_const only, with ' = 0' pure_virtual only and with nothing neither; a
\* row with any other text there gives no descriptor.
C25_SuffixFlags ==
  pc = "returned" /\ call.fn = "parse_methods" /\ ~IsWord(call.row[2]) =>
    /\ \A i \in 1..Len(Descriptors) :
         /\ AfterParenthesis(call.row[2]) \in { <<>>, <<" ","c","o","n","s","t">>, <<" ","="," ","0">>, <<" ","c","o","n","s","t"," ","="," ","0">> }
         /\ SuffixFlags(Descriptors[i])
              = << AfterParenthesis(call.row[2]) \in { <<" ","="," ","0">>, <<" ","c","o","n","s","t"," ","="," ","0">> },
                   AfterParenthesis(call.row[2]) \in { <<" ","c","o","n","s","t">>, <<" ","c","o","n","s","t"," ","="," ","0">> } >>
    /\ call.row[1] = <<"i","n","t">>
       /\ call.row[2] \in { <<"b","a","r","(",")">>, <<"b","a","r","(","i","n","t"," ","a",")"," ","c","o","n","s","t">>, <<"b","a","z","(",")"," ","="," ","0">>, <<"b","a","r","(",")"," ","c","o","n","s","t"," ","="," ","0">> } =>
         Len(Descriptors) = 1
    /\ AfterParenthesis(call.row[2]) \notin { <<>>, <<" ","c","o","n","s","t">>, <<" ","="," ","0">>, <<" ","c","o","n","s","t"," ","="," ","0">> } =>
         Descriptors = <<>>

\* "int bar() const = 0" of class Foo is returned with both flags.
C25_Witness ==
  /\ call.fn = "parse_methods"
  /\ call.row = << <<"i","n","t">>, <<"b","a","r","(",")"," ","c","o","n","s","t"," ","="," ","0">>, <<<<"F","o","o">>>> >>
  /\ Len(Descriptors) = 1
  /\ SuffixFlags(Descriptors[1]) = << TRUE, TRUE >>

\* ------------------------------------------------------------- C26

IsGoodTable(table) == table \notin { NoAnchorTable, NoPrefixTable }

\* The page without the value tables that have no "-enum" anchor or a value
\* without the prefix.
WithoutBadTables(soup) ==
  [soup EXCEPT !.valuelists = SelectSeq(@, IsGoodTable)]

HasBadTable(soup) == \E i \in 1..Len(soup.valuelists) : ~IsGoodTable(soup.valuelists[i])

\* The first file of the folder has just been read.
FirstFileRead == pc = "parse" /\ idx = 2

\* C26: a value table with no "-enum" anchor before it, or with a value that
\* lacks the prefix, is skipped: the page is emitted with what its other value
\* tables, its types table and its methods give.
C26_BadValueTableIsSkipped ==
  FirstFileRead /\ HasBadTable(corpus[1]) =>
    /\ Len(headers_data) = 1
    /\ headers_data[1] = parse_doc(WithoutBadTables(corpus[1])).val.result

\* ------------------------------------------------------------- C27

\* The enum descriptors of the page when its file has just been read.
EnumDescriptors ==
  IF FirstFileRead /\ Len(headers_data) = 1
  THEN SelectSeq(headers_data[1]["nested_types"], LAMBDA t : t.kind = <<"e","n","u","m">>)
  ELSE <<>>

\* The value rows of the tables of the page under an anchor, in document
\* order, as values: the name without the prefix "QKind::".
RECURSIVE RowsUnder(_, _)
RowsUnder(tables, anchor) ==
  IF tables = <<>> THEN <<>>
  ELSE (IF FindEnumAnchor(Head(tables).anchors) = <<anchor>>
        THEN [k \in 1..(Len(Head(tables).rows) - 1) |->
                [name |-> PyFrom(Head(tables).rows[k + 1].tds[1], Len(<<"Q","K","i","n","d",":",":">>)),
                 value |-> Head(tables).rows[k + 1].tds[2],
                 description |-> <<>>]]
        ELSE <<>>)
       \o RowsUnder(Tail(tables), anchor)

\* The rows with the first row of each name only.
FirstOfEachName(rows) ==
  SelectSeq([k \in 1..Len(rows) |->
               [row |-> rows[k],
                first |-> \A j \in 1..(k - 1) : rows[j].name # rows[k].name]],
            LAMBDA r : r.first)

\* The anchor of the enum of a name.
AnchorOf(name) == name \o <<"-","e","n","u","m">>

\* C27: in the values of every enum descriptor of the page each name occurs
\* once, and the value kept is the first row of that name in document order,
\* whether the rows are in one value table or in several under one anchor.
C27_FirstValueOfEachName ==
  \A e \in 1..Len(EnumDescriptors) :
    /\ \A i, j \in 1..Len(EnumDescriptors[e].values) :
         i # j => EnumDescriptors[e].values[i].name # EnumDescriptors[e].values[j].name
    /\ EnumDescriptors[e].values
         = [k \in 1..Len(FirstOfEachName(RowsUnder(corpus[1].valuelists,
                                                    AnchorOf(EnumDescriptors[e].name)))) |->
              FirstOfEachName(RowsUnder(corpus[1].valuelists,
                                        AnchorOf(EnumDescriptors[e].name)))[k].row]

\* ---------------------------------------------------------------------------
\* C28: the types of a method without warning are resolved and kept
\* ---------------------------------------------------------------------------

\* Line 822 names the include file and prints the method: the method k of the
\* header h is the subject of a warning of the pass.
Warned(h, k) ==
  \E i \in 1..Len(log) :
    /\ log[i].line = 822
    /\ log[i].what.include_file = headers_data[h]["include_file"]
    /\ log[i].what.m = headers_data[h]["methods"][k]

\* The bases of the return type and of the argument types of a method, the
\* nested template arguments included.
MethodBases(m) ==
  (IF HasKey(m, "return_type") THEN TypeBases(m["return_type"]) ELSE {}) \cup
  (IF HasKey(m, "arguments")
   THEN UNION { TypeBases(m["arguments"][a]["type"]) : a \in 1..Len(m["arguments"]) }
   ELSE {})

MethodsOf(h) ==
  IF HasKey(headers_data[h], "methods") THEN headers_data[h]["methods"] ELSE <<>>

\* C28: after fix_method_types has returned, every base of the return type and
\* of the argument types of a method without unknown-type warning, at any
\* depth, is a key of the registry and a member of the used set.
C28_UnwarnedMethodsAreResolved ==
  pc = "fix_returned" =>
    \A h \in 1..Len(headers_data) : \A k \in 1..Len(MethodsOf(h)) :
      ~Warned(h, k) =>
        MethodBases(MethodsOf(h)[k]) \subseteq (DOMAIN types_data \cap used_types)

\* fix_method_types has returned after one warning; a method without warning
\* names the typedef qint8, which the pruning has kept, and the pruning has
\* removed another typedef.
C28_Witness ==
  /\ pc = "fix_returned"
  /\ \E i \in 1..Len(log) : log[i].line = 822
  /\ \E i \in 1..Len(log) : log[i].line = 827
  /\ \E h \in 1..Len(headers_data) : \E k \in 1..Len(MethodsOf(h)) :
       /\ ~Warned(h, k)
       /\ <<"q","i","n","t","8">> \in MethodBases(MethodsOf(h)[k])
  /\ <<"q","i","n","t","8">> \in TypedefNames(types_data)

\* ---------------------------------------------------------------------------
\* C29: what fix_method_types leaves alone
\* ---------------------------------------------------------------------------

\* A type with the base of every node, the template arguments included, put
\* aside.
RECURSIVE WithoutBases(_)
WithoutBases(t) ==
  LET t0 == Put(t, "base", <<>>)
  IN IF HasKey(t, "template_arguments")
     THEN Put(t0, "template_arguments",
              [i \in 1..Len(t["template_arguments"]) |->
                 WithoutBases(t["template_arguments"][i])])
     ELSE t0

\* A method with the bases of its return type and of its argument types put
\* aside; the type of a variable is not among them.
MethodWithoutBases(m) ==
  LET m1 == IF HasKey(m, "return_type")
            THEN Put(m, "return_type", WithoutBases(m["return_type"])) ELSE m
  IN IF HasKey(m, "arguments")
     THEN Put(m1, "arguments",
              [a \in 1..Len(m["arguments"]) |->
                 Put(m["arguments"][a], "type", WithoutBases(m["arguments"][a]["type"]))])
     ELSE m1

\* A document with the bases of its methods and of its inherits type put
\* aside.
HeaderWithoutBases(header_data) ==
  LET h1 == IF HasKey(header_data, "methods")
            THEN Put(header_data, "methods",
                     [k \in 1..Len(header_data["methods"]) |->
                        MethodWithoutBases(header_data["methods"][k])])
            ELSE header_data
  IN IF HasInherits(header_data)
     THEN Put(h1, "inherits", WithoutBases(header_data["inherits"])) ELSE h1

\* The registry entry of a name as a reader of the registry finds it: the
\* inherits type of a class entry is the object that the document holds.
RegistryEntry(td, hd, name) ==
  IF HasKey(td[name], "inherits")
  THEN Put(td[name], "inherits", hd[td[name]["inherits"].ref]["inherits"])
  ELSE td[name]

\* The same entry with the bases of its inherits type put aside.
RegistryEntryWithoutInherited(td, hd, name) ==
  IF HasKey(td[name], "inherits")
  THEN Put(td[name], "inherits", WithoutBases(hd[td[name]["inherits"].ref]["inherits"]))
  ELSE td[name]

\* A step of fix_method_types keeps the documents, the methods and all their
\* fields but the bases of return, argument and inherits types, and keeps the
\* descriptors of variables as they are.
DocumentsFrame ==
  /\ Len(headers_data') = Len(headers_data)
  /\ \A h \in 1..Len(headers_data) :
       /\ HeaderWithoutBases(headers_data'[h]) = HeaderWithoutBases(headers_data[h])
       /\ \A k \in 1..Len(MethodsOf(h)) :
            HasKey(MethodsOf(h)[k], "variable")
              => headers_data'[h]["methods"][k] = MethodsOf(h)[k]

\* A step of fix_method_types removes only typedef entries from the registry.
RegistryKeysFrame ==
  /\ DOMAIN types_data' \subseteq DOMAIN types_data
  /\ (DOMAIN types_data \ DOMAIN types_data') \subseteq TypedefNames(types_data)

\* C29 as stated: fix_method_types keeps the documents and methods, changes
\* only the bases of return, argument and inherits types, leaves the variables
\* as parsed, and changes the registry only by deleting typedef entries: every
\* entry that stays reads as before.
C29_ResolverFrame ==
  [][pc = "fix_method_types" =>
       /\ DocumentsFrame
       /\ RegistryKeysFrame
       /\ \A name \in DOMAIN types_data' :
            RegistryEntry(types_data', headers_data', name)
              = RegistryEntry(types_data, headers_data, name)]_vars

\* C29 (amended): as above, but an entry that stays may read differently in
\* the bases of its inherits type, which is the type object of the class's
\* document.
C29_ResolverFrameButInherits ==
  [][pc = "fix_method_types" =>
       /\ DocumentsFrame
       /\ RegistryKeysFrame
       /\ \A name \in DOMAIN types_data' :
            RegistryEntryWithoutInherited(types_data', headers_data', name)
              = RegistryEntryWithoutInherited(types_data, headers_data, name)]_vars

\* fix_method_types has returned for the classes of Outer and qtglobal.html:
\* the inherits type of Outer::Derived and the argument of attach name
\* Outer::Base, the registry entry of Outer::Derived reads the same base, the
\* variable peer still has the type Base, and a typedef was removed.
C29_Witness ==
  /\ pc = "fix_returned"
  /\ Len(headers_data) >= 2
  /\ HasKey(headers_data[2], "class")
  /\ headers_data[2]["class"] = <<"O","u","t","e","r",":",":","D","e","r","i","v","e","d">>
  /\ headers_data[2]["inherits"]["base"] = <<"O","u","t","e","r",":",":","B","a","s","e">>
  /\ RegistryEntry(types_data, headers_data, <<"O","u","t","e","r",":",":","D","e","r","i","v","e","d">>)["inherits"]["base"]
       = <<"O","u","t","e","r",":",":","B","a","s","e">>
  /\ headers_data[2]["methods"][1]["type"]["base"] = <<"B","a","s","e">>
  /\ headers_data[2]["methods"][2]["arguments"][1]["type"]["base"] = <<"O","u","t","e","r",":",":","B","a","s","e">>
  /\ \E i \in 1..Len(log) : log[i].line = 827

\* ---------------------------------------------------------------------------
\* C30: a method whose resolution fails is left half resolved
\* ---------------------------------------------------------------------------

\* Lines 541-555: the documents that parse() returns for the files from the
\* i-th on, as they are parsed.
RECURSIVE ParsedFrom(_, _)
ParsedFrom(files, i) ==
  IF i > Len(files) THEN <<>>
  ELSE (IF ~IsBlacklistedFile(files[i].basename) /\ IsOk(parse_doc(files[i]))
        THEN <<parse_doc(files[i]).val.result>> ELSE <<>>)
       \o ParsedFrom(files, i + 1)

\* The step of line 821-822: the walk of a type of a method ends with
\* NoTypeOriginException and the handler logs the warning.
ResolutionFails ==
  /\ pc = "fix_method_types"
  /\ Len(log') = Len(log) + 1
  /\ log'[Len(log')].line = 822

\* The bases of a document's method as parsed, as they were before the step
\* and as they are after it, for the nodes in the order fix_nested_types
\* visits them.
BasesOf(header_data, k) ==
  [i \in 1..Len(MethodSlots(header_data["methods"][k])) |->
     SlotBase(header_data, k, MethodSlots(header_data["methods"][k])[i])]

HalfResolved(parsed, before, after, failing) ==
  /\ Len(before) = Len(parsed)
  /\ Len(after) = Len(parsed)
  /\ \A i \in 1..(failing - 1) :
       /\ after[i] = before[i]
       /\ after[i] \in DOMAIN types_data'
       /\ after[i] \in used_types'
  /\ after[failing] = IF parsed[failing] = <<"Q","F","i","l","e",":",":","P","e","r","m","i","s","s","i","o","n","s">>
                      THEN <<"Q","F","i","l","e","D","e","v","i","c","e",":",":","P","e","r","m","i","s","s","i","o","n","s">> ELSE parsed[failing]
  /\ \A i \in (failing + 1)..Len(parsed) : after[i] = parsed[i]

\* C30: when the resolution of a method fails on a type, the types before it
\* keep the registry names written to them and these names are in the used
\* set; the failing type has its parsed base, but QFileDevice::Permissions for
\* QFile::Permissions; the types after it have their parsed bases.
C30_FailedMethodIsHalfResolved ==
  [][ResolutionFails =>
       HalfResolved(BasesOf(ParsedFrom(corpus, 1)[fix.h], fix.m),
                    BasesOf(headers_data[fix.h], fix.m),
                    BasesOf(headers_data'[fix.h], fix.m),
                    Len(BasesOf(headers_data[fix.h], fix.m)) - Len(fix.slots) + 1)]_vars

\* fix_method_types has returned for a folder with qtfiles.html and
\* qtglobal.html: qSetPermissions has its first argument resolved and Container
\* in the used set, its second with the base QFileDevice::Permissions and its
\* third with the parsed QFile::Permissions; qPairs kept the used typedef qint8
\* of its return type, and the typedef Mode of its last argument was removed as
\* unused.
C30_Witness ==
  /\ pc = "fix_returned"
  /\ \E h \in 1..Len(headers_data) :
       /\ headers_data[h]["include_file"] = <<"Q","t","F","i","l","e","s">>
       /\ Warned(h, 1)
       /\ Warned(h, 2)
       /\ BasesOf(headers_data[h], 1)
            = << <<"b","o","o","l">>, <<"C","o","n","t","a","i","n","e","r">>, <<"Q","F","i","l","e","D","e","v","i","c","e",":",":","P","e","r","m","i","s","s","i","o","n","s">>, <<"Q","F","i","l","e",":",":","P","e","r","m","i","s","s","i","o","n","s">> >>
       /\ BasesOf(headers_data[h], 2)
            = << <<"q","i","n","t","8">>, <<"i","n","t">>, <<"M","i","s","s","i","n","g">>, <<"s","t","d",":",":","p","a","i","r">>, <<"M","o","d","e">> >>
  /\ {<<"b","o","o","l">>, <<"C","o","n","t","a","i","n","e","r">>, <<"q","i","n","t","8">>, <<"i","n","t">>} \subseteq used_types
  /\ <<"q","i","n","t","8">> \in DOMAIN types_data
  /\ <<"M","o","d","e">> \notin DOMAIN types_data

====
